---- MODULE Spec2Model ----
(***************************************************************************)
(* Model of the message-to-artifact pipeline of farming-grants-agreements- *)
(* pdf: processMessage -> handleEvent -> generatePdf -> uploadPdf ->       *)
(* removeTemporaryFile, with the local temp directory, the object store    *)
(* and the renderer's module-level flag as the state that outlives a       *)
(* message.                                                                *)
(***************************************************************************)
EXTENDS Integers, Sequences, FiniteSets, TLC

(***************************************************************************)
(* Bounds                                                                  *)
(***************************************************************************)
\* number of queue messages processed in one behaviour
MaxMessages == 2

(***************************************************************************)
(* JavaScript values.  A value is a tagged record so that `undefined`, a   *)
(* number and a string can sit in the same field.                          *)
(***************************************************************************)
Undefined == [t |-> "undefined", s |-> "", n |-> 0]
Str(s) == [t |-> "string", s |-> s, n |-> 0]
Num(n) == [t |-> "number", s |-> "", n |-> n]

\* JavaScript truthiness: undefined, '' and 0 are falsy
Truthy(v) ==
  CASE v.t = "undefined" -> FALSE
    [] v.t = "string" -> v.s # ""
    [] v.t = "number" -> v.n # 0

\* String(v), as a template literal `${v}` renders it
JsToString(v) ==
  CASE v.t = "undefined" -> "undefined"
    [] v.t = "string" -> v.s
    [] v.t = "number" -> ToString(v.n)

\* obj.name: a property the object does not carry reads as undefined
Prop(obj, name) == IF name \in DOMAIN obj THEN obj[name] ELSE Undefined

(***************************************************************************)
(* Errors: the name and the message of a JavaScript Error.                 *)
(***************************************************************************)
Err(name, message) == [name |-> name, message |-> message]
NoErr == Err("", "")

(***************************************************************************)
(* Event types.  A type string is its sequence of dot-separated segments;  *)
(* String.prototype.includes is containment of the marker's segments as a  *)
(* contiguous run.                                                         *)
(***************************************************************************)
Marker == <<"agreement", "status", "updated">>

NoType == [t |-> "undefined", segs |-> <<>>]
TypeStr(segs) == [t |-> "string", segs |-> segs]

Includes(segs, sub) ==
  \E i \in 0..(Len(segs) - Len(sub)) :
    \A j \in 1..Len(sub) : segs[i + j] = sub[j]

EventTypes ==
  { NoType,
    TypeStr(<<"agreement", "status", "updated">>),
    TypeStr(<<"io", "onsite", "agreement", "status", "updated">>),
    TypeStr(<<"invalid", "type">>),
    TypeStr(<<"agreement", "status">>) }

(***************************************************************************)
(* URLs.  An agreementUrl value is undefined or a string, written as its   *)
(* scheme, host (as typed), port and path.  new URL(url) throws a          *)
(* TypeError when the string has no scheme; its hostname is the host in    *)
(* lower case, without the port.                                           *)
(***************************************************************************)
NoUrl == [t |-> "undefined", scheme |-> "", host |-> "", port |-> "", path |-> ""]
UrlStr(scheme, host, port, path) ==
  [t |-> "string", scheme |-> scheme, host |-> host, port |-> port, path |-> path]

UrlText(u) ==
  IF u.t = "undefined" THEN "undefined"
  ELSE (IF u.scheme = "" THEN "" ELSE u.scheme \o "://") \o u.host
       \o (IF u.port = "" THEN "" ELSE ":" \o u.port) \o u.path

UrlTruthy(u) == u.t = "string" /\ UrlText(u) # ""

ToLowerCase(h) ==
  CASE h = "EXAMPLE.com" -> "example.com"
    [] OTHER -> h

\* mutant: any string is taken to parse, its hostname being empty
UrlParses_lenient(u) == u.t = "string"

UrlParses(u) == u.t = "string" /\ u.scheme # "" /\ u.host # ""
UrlHostname(u) == ToLowerCase(u.host)

AgreementUrls ==
  { NoUrl,
    UrlStr("", "", "", ""),
    UrlStr("", "", "", "not-a-url"),
    UrlStr("https", "example.com", "", "/agreement/FPTT123456789"),
    UrlStr("https", "EXAMPLE.com", "8443", "/a"),
    UrlStr("https", "bad-domain.com", "", "/agreement/FPTT123456789") }

\* the allow-lists a deployment may configure
AllowLists == {{}, {"example.com", "test.example.com"}, {"example.com", "bad-domain.com"}}

(***************************************************************************)
(* Dates, at day granularity.  An ISO date string 'YYYY-MM-DD' is carried  *)
(* as its digits, YYYYMMDD; new Date(string) reads year, month and day     *)
(* back out of them and is an Invalid Date when they name no calendar day, *)
(* as new Date(undefined) is.                                              *)
(***************************************************************************)
Date(y, m, d) == [valid |-> TRUE, y |-> y, m |-> m, d |-> d]
InvalidDate == [valid |-> FALSE, y |-> 0, m |-> 0, d |-> 0]

IsoDate(y, m, d) == [t |-> "string", s |-> "iso-date", n |-> y * 10000 + m * 100 + d]

\* mutant: a value that is not a date string is read as the epoch, the way
\* `new Date(null)` is
NewDate_epoch(v) ==
  IF v.t = "string" /\ v.s = "iso-date"
  THEN LET y == v.n \div 10000
           m == (v.n \div 100) % 100
           d == v.n % 100
       IN IF m \in 1..12 /\ d \in 1..31 THEN Date(y, m, d) ELSE Date(1970, 1, 1)
  ELSE Date(1970, 1, 1)

NewDate(v) ==
  IF v.t = "string" /\ v.s = "iso-date"
  THEN LET y == v.n \div 10000
           m == (v.n \div 100) % 100
           d == v.n % 100
       IN IF m \in 1..12 /\ d \in 1..31 THEN Date(y, m, d) ELSE InvalidDate
  ELSE InvalidDate

(***************************************************************************)
(* Configuration (convict schema defaults).                                *)
(***************************************************************************)
TmpPdfFolder == "/tmp/defra-pdf"
BucketName == "farming-grants-agreements-pdf-bucket"
BaseTermPrefix == "base"
ExtendedTermPrefix == "extended"
MaximumTermPrefix == "maximum"
BaseTermThreshold == 10
ExtendedTermThreshold == 15
RetentionBaseYears == 7

(***************************************************************************)
(* Retention calculator (file-upload.js, with date-fns).                   *)
(***************************************************************************)
\* a JavaScript number that may be NaN
NaN == [nan |-> TRUE, v |-> 0]
Number(v) == [nan |-> FALSE, v |-> v]
\* a <= b on JavaScript numbers: false as soon as one side is NaN
Leq(a, b) == ~a.nan /\ ~b.nan /\ a.v <= b.v
Plus(a, b) == IF a.nan \/ b.nan THEN NaN ELSE Number(a.v + b.v)

\* startOfMonth(addMonths(now, 1))
startOfNextMonth(now) ==
  IF now.m = 12 THEN Date(now.y + 1, 1, 1) ELSE Date(now.y, now.m + 1, 1)

\* compareAsc on the (year, month, day) of two valid dates: 1, -1 or 0
compareAsc(a, b) ==
  LET ka == a.y * 10000 + a.m * 100 + a.d
      kb == b.y * 10000 + b.m * 100 + b.d
  IN IF ka > kb THEN 1 ELSE IF ka < kb THEN -1 ELSE 0

Abs(x) == IF x < 0 THEN -x ELSE x

\* mutant: the difference of the calendar years, a started year counting
\* as a whole one
differenceInYears_calendar(dateLeft, dateRight) ==
  IF ~dateLeft.valid \/ ~dateRight.valid THEN NaN
  ELSE Number(dateLeft.y - dateRight.y)

\* date-fns differenceInYears(dateLeft, dateRight): full years between the
\* two dates, truncated towards zero; NaN when a date is invalid
differenceInYears(dateLeft, dateRight) ==
  IF ~dateLeft.valid \/ ~dateRight.valid THEN NaN
  ELSE LET sign == compareAsc(dateLeft, dateRight)
           difference == Abs(dateLeft.y - dateRight.y)
           l == [dateLeft EXCEPT !.y = 1584]
           r == [dateRight EXCEPT !.y = 1584]
           isLastYearNotFull == IF compareAsc(l, r) = -sign THEN 1 ELSE 0
       IN Number(sign * (difference - isLastYearNotFull))

\* mutant: the base and the extended prefix are returned the wrong way round
calculateRetentionPeriod_swapped(endDate, now) ==
  LET startDate == startOfNextMonth(now)
      yearsFromStartToEnd == differenceInYears(NewDate(endDate), startDate)
      totalYears == Plus(yearsFromStartToEnd, Number(RetentionBaseYears))
  IN IF Leq(totalYears, Number(BaseTermThreshold)) THEN ExtendedTermPrefix
     ELSE IF Leq(totalYears, Number(ExtendedTermThreshold)) THEN BaseTermPrefix
     ELSE MaximumTermPrefix

\* mutant: the thresholds are exclusive
calculateRetentionPeriod_exclusive(endDate, now) ==
  LET startDate == startOfNextMonth(now)
      yearsFromStartToEnd == differenceInYears(NewDate(endDate), startDate)
      totalYears == Plus(yearsFromStartToEnd, Number(RetentionBaseYears))
      Lt(a, b) == ~a.nan /\ ~b.nan /\ a.v < b.v
  IN IF Lt(totalYears, Number(BaseTermThreshold)) THEN BaseTermPrefix
     ELSE IF Lt(totalYears, Number(ExtendedTermThreshold)) THEN ExtendedTermPrefix
     ELSE MaximumTermPrefix

calculateRetentionPeriod(endDate, now) ==
  LET startDate == startOfNextMonth(now)
      yearsFromStartToEnd == differenceInYears(NewDate(endDate), startDate)
      totalYears == Plus(yearsFromStartToEnd, Number(RetentionBaseYears))
  IN IF Leq(totalYears, Number(BaseTermThreshold)) THEN BaseTermPrefix
     ELSE IF Leq(totalYears, Number(ExtendedTermThreshold)) THEN ExtendedTermPrefix
     ELSE MaximumTermPrefix

(***************************************************************************)
(* Queue messages.  A body either fails JSON.parse, or parses to null, or  *)
(* parses to an object with an optional type and an optional data object.  *)
(***************************************************************************)
EventData(number, version, status, url, endDate) ==
  [agreementNumber |-> number, version |-> version, status |-> status,
   agreementUrl |-> url, agreementEndDate |-> endDate]

NoData == EventData(Undefined, Undefined, Undefined, NoUrl, Undefined)

Statuses == {Str("accepted"), Str("offered"), Undefined}

\* what an event says about the agreement itself: number, version, end date
Agreement(number, version, endDate) ==
  [agreementNumber |-> number, version |-> version, agreementEndDate |-> endDate]

Agreements ==
  { Agreement(Str("FPTT123456789"), Num(1), IsoDate(2027, 12, 31)),
    Agreement(Str("FPTT123456789"), Num(2), Undefined),
    Agreement(Undefined, Num(1), IsoDate(2036, 1, 1)) }

\* agreements at the edges of what an event can carry: the version 0, and
\* an agreement number with path separators in it
EdgeAgreements ==
  { Agreement(Str("FPTT123456789"), Num(0), IsoDate(2027, 12, 31)),
    Agreement(Str("../outside"), Num(1), IsoDate(2027, 12, 31)) }

\* agreements for messages in flight together: the default agreement, and two
\* whose numbers and versions differ but read the same once joined by '-'
ConcurrentAgreements ==
  { Agreement(Str("FPTT123456789"), Num(1), IsoDate(2027, 12, 31)),
    Agreement(Str("FPTT123456789-1"), Num(2), IsoDate(2027, 12, 31)),
    Agreement(Str("FPTT123456789"), Str("1-2"), IsoDate(2027, 12, 31)) }

DefaultAgreement == Agreement(Str("FPTT123456789"), Num(1), IsoDate(2027, 12, 31))
DefaultUrl == UrlStr("https", "example.com", "", "/agreement/FPTT123456789")

Event(ty, a, st, u) ==
  [type |-> ty, hasData |-> TRUE,
   data |-> EventData(a.agreementNumber, a.version, st, u, a.agreementEndDate)]

\* every type, status and URL on the default agreement; every agreement on
\* an accepted, a skipped and an unrecognized event; the edge agreements on
\* an accepted event
Payloads ==
  { [type |-> ty, hasData |-> FALSE, data |-> NoData] : ty \in EventTypes }
  \cup
  { Event(ty, DefaultAgreement, st, u) :
      ty \in EventTypes, st \in Statuses, u \in AgreementUrls }
  \cup
  { Event(ty, a, st, DefaultUrl) :
      ty \in {TypeStr(Marker), TypeStr(<<"invalid", "type">>)},
      a \in Agreements, st \in {Str("accepted"), Str("offered")} }
  \cup
  { Event(TypeStr(Marker), a, Str("accepted"), DefaultUrl) : a \in EdgeAgreements }

NullPayload == [type |-> NoType, hasData |-> FALSE, data |-> NoData]

Bodies ==
  { [json |-> "invalid", payload |-> NullPayload],
    [json |-> "null", payload |-> NullPayload] }
  \cup { [json |-> "object", payload |-> p] : p \in Payloads }

(***************************************************************************)
(* State                                                                   *)
(***************************************************************************)
VARIABLES
  allowedDomains,   \* config.get('allowedDomains')
  bucket,           \* config.get('aws.s3.bucket'), '' when unset
  now,              \* the clock, new Date()
  processed,        \* how many messages have been received so far
  pc,               \* where the processing of the current message stands
  msg,              \* the queue message being processed
  calls,            \* the calls made to generatePdf and uploadPdf for it
  logs,             \* the log lines emitted for it
  hResult,          \* how handleEvent ended for it
  pmResult,         \* how processMessage ended for it
  pdfPath,          \* generateAndUploadPdf's pdfPath
  uploadResult,     \* uploadPdf's uploadResult
  files,            \* paths that exist in the local file system
  s3,               \* objects held by the object store
  puts,             \* the PutObjectCommands sent for the message in hand
  steps,            \* the operations performed for the message in hand, in order
  browserClosed,    \* pdf-generator.js: module-level `let browserClosed`
  workers,          \* the messages a batch has in flight at once, one per slot
  publisher         \* sns-publisher.js: the locals of the publishEvent call in hand

vars ==
  <<allowedDomains, bucket, now, processed, pc, msg, calls, logs, hResult,
    pmResult, pdfPath, uploadResult, files, s3, puts, steps, browserClosed,
    workers, publisher>>

config == <<allowedDomains, bucket, now>>

Log(level, text, arg) == [level |-> level, text |-> text, arg |-> arg]

\* outcome of an async function: still running, returned a value, or raised
Pending == [kind |-> "pending", value |-> "", err |-> NoErr]
Returned(value) == [kind |-> "returned", value |-> value, err |-> NoErr]
Raised(err) == [kind |-> "raised", value |-> "", err |-> err]

(***************************************************************************)
(* @hapi/boom errors, as processMessage raises them.                       *)
(***************************************************************************)
NoBoomData == [present |-> FALSE, message |-> 0, error |-> ""]
BoomData(message, error) ==
  [present |-> TRUE, message |-> message.MessageId, error |-> error]

NotRaised(kind) == [kind |-> kind, statusCode |-> 0, message |-> "", data |-> NoBoomData]

\* Boom.badData(message, data): a 422 carrying data
BoomBadData(message, data) ==
  [kind |-> "raised", statusCode |-> 422, message |-> message, data |-> data]

\* Boom.boomify(err, options) on a plain Error: boomify reads the options
\* statusCode, message, decorate and override only; the message becomes
\* `${options.message}: ${err.message}` and err.data, which the error does
\* not own, is set to null.
BoomBoomify(err, options) ==
  [kind |-> "raised", statusCode |-> options.statusCode,
   message |-> IF err.message = "" THEN options.message
               ELSE options.message \o ": " \o err.message,
   data |-> NoBoomData]

\* mutant: every error is classified as a malformed message
handleProcessingError_allBadData(err, message) ==
  BoomBadData("Invalid message format", BoomData(message, err.message))

\* handleProcessingError(err, message, logger): always throws
handleProcessingError(err, message) ==
  IF err.name = "SyntaxError"
  THEN BoomBadData("Invalid message format", BoomData(message, err.message))
  ELSE BoomBoomify(err, [statusCode |-> 500,
                         message |-> "Error processing SQS message",
                         data |-> BoomData(message, err.message)])

(***************************************************************************)
(* handleEvent up to the call of generatePdf: what the gates decide.       *)
(***************************************************************************)
GateReturn(value, ls) == [kind |-> "return", value |-> value, err |-> NoErr, logs |-> ls]
GateRaise(err, ls) == [kind |-> "raise", value |-> "", err |-> err, logs |-> ls]
GateRender(ls) == [kind |-> "render", value |-> "", err |-> NoErr, logs |-> ls]

\* mutant: the allow-list is matched against URL.host, which keeps the port
isUrlDomainAllowed_host(url, allowed) ==
  (UrlHostname(url) \o (IF url.port = "" THEN "" ELSE ":" \o url.port)) \in allowed

isUrlDomainAllowed(url, allowed) == UrlHostname(url) \in allowed

\* `${agreementNumber}-${version}.pdf`
Filename(data) ==
  JsToString(data.agreementNumber) \o "-" \o JsToString(data.version) \o ".pdf"

\* mutant: the URL-presence gate is missing
processOfferAcceptedEvent_noUrlGate(id, payload, allowed) ==
  LET l0 == <<Log("info", "Processing agreement offer from event: ", ToString(id))>>
      data == payload.data
  IN IF ~payload.hasData
     THEN GateRaise(Err("TypeError",
                        "Cannot read properties of undefined (reading 'status')"), l0)
     ELSE IF data.status # Str("accepted")
     THEN GateReturn("", Append(l0, Log("info", "Skipping PDF generation for status: ",
                                        JsToString(data.status))))
     ELSE IF ~UrlParses(data.agreementUrl)
     THEN GateRaise(Err("TypeError", "Invalid URL"), l0)
     ELSE IF ~isUrlDomainAllowed(data.agreementUrl, allowed)
     THEN GateReturn("", Append(l0, Log("warn", "Skipping PDF generation for URL: ",
                                        UrlText(data.agreementUrl))))
     ELSE GateRender(Append(l0, Log("info", "Generating Agreement PDF from agreement URL ",
                                    UrlText(data.agreementUrl))))

\* mutant: the status gate is missing
processOfferAcceptedEvent_noStatusGate(id, payload, allowed) ==
  LET l0 == <<Log("info", "Processing agreement offer from event: ", ToString(id))>>
      data == payload.data
  IN IF ~(payload.hasData /\ UrlTruthy(data.agreementUrl))
     THEN GateReturn("", l0)
     ELSE IF ~UrlParses(data.agreementUrl)
     THEN GateRaise(Err("TypeError", "Invalid URL"), l0)
     ELSE IF ~isUrlDomainAllowed(data.agreementUrl, allowed)
     THEN GateReturn("", Append(l0, Log("warn", "Skipping PDF generation for URL: ",
                                        UrlText(data.agreementUrl))))
     ELSE GateRender(Append(l0, Log("info", "Generating Agreement PDF from agreement URL ",
                                    UrlText(data.agreementUrl))))

\* mutant: a URL off the allow-list is skipped without the warning
processOfferAcceptedEvent_noWarn(id, payload, allowed) ==
  LET l0 == <<Log("info", "Processing agreement offer from event: ", ToString(id))>>
      data == payload.data
  IN IF ~(payload.hasData /\ UrlTruthy(data.agreementUrl))
     THEN GateReturn("", l0)
     ELSE IF data.status # Str("accepted")
     THEN GateReturn("", Append(l0, Log("info", "Skipping PDF generation for status: ",
                                        JsToString(data.status))))
     ELSE IF ~UrlParses(data.agreementUrl)
     THEN GateRaise(Err("TypeError", "Invalid URL"), l0)
     ELSE IF ~isUrlDomainAllowed(data.agreementUrl, allowed)
     THEN GateReturn("", l0)
     ELSE GateRender(Append(l0, Log("info", "Generating Agreement PDF from agreement URL ",
                                    UrlText(data.agreementUrl))))

processOfferAcceptedEvent(id, payload, allowed) ==
  LET l0 == <<Log("info", "Processing agreement offer from event: ", ToString(id))>>
      data == payload.data
  IN IF ~(payload.hasData /\ UrlTruthy(data.agreementUrl))
     THEN GateReturn("", l0)
     ELSE IF data.status # Str("accepted")
     THEN GateReturn("", Append(l0, Log("info", "Skipping PDF generation for status: ",
                                        JsToString(data.status))))
     ELSE IF ~UrlParses(data.agreementUrl)
     THEN GateRaise(Err("TypeError", "Invalid URL"), l0)
     ELSE IF ~isUrlDomainAllowed(data.agreementUrl, allowed)
     THEN GateReturn("", Append(l0, Log("warn", "Skipping PDF generation for URL: ",
                                        UrlText(data.agreementUrl))))
     ELSE GateRender(Append(l0, Log("info", "Generating Agreement PDF from agreement URL ",
                                    UrlText(data.agreementUrl))))

\* mutant: the type is only required to start like the marker
hasMarker_prefix(type) == Len(type.segs) > 0 /\ type.segs[1] = Marker[1]

hasMarker(type) == Includes(type.segs, Marker)

handleEvent(id, body, allowed) ==
  IF body.json = "null"
  THEN GateRaise(Err("TypeError", "Cannot read properties of null (reading 'type')"), <<>>)
  ELSE IF body.payload.type.t # "string"
  THEN GateRaise(Err("TypeError",
                     "Cannot read properties of undefined (reading 'includes')"), <<>>)
  ELSE IF ~hasMarker(body.payload.type)
  THEN GateRaise(Err("Error", "Unrecognized event type"), <<>>)
  ELSE processOfferAcceptedEvent(id, body.payload, allowed)

(***************************************************************************)
(* Calls made on behalf of a message, in the order they are made.          *)
(***************************************************************************)
GeneratePdfCall(data, filename) ==
  [fn |-> "generatePdf", data |-> data, pdfPath |-> "", filename |-> filename,
   agreementNumber |-> Undefined, version |-> Undefined, endDate |-> Undefined]

UploadPdfCall(path, filename, agreementNumber, version, endDate) ==
  [fn |-> "uploadPdf", data |-> NoData, pdfPath |-> path, filename |-> filename,
   agreementNumber |-> agreementNumber, version |-> version, endDate |-> endDate]

Called(fn) == \E i \in 1..Len(calls) : calls[i].fn = fn

\* uploadPdf's `let uploadResult`: undefined until upload() has returned
NoUploadResult == [defined |-> FALSE, success |-> FALSE, bucket |-> "", key |-> ""]
UploadResult(b, key) == [defined |-> TRUE, success |-> TRUE, bucket |-> b, key |-> key]

\* the slots of a batch; sqs-consumer hands the messages of one receive to
\* handleMessage together
Workers == {1, 2}
\* a slot with no message: where its message stands, the event data, the
\* output path, whether the browser launched, whether generatePdf returned
\* the path, how readFile and the put ended, and whether another message's
\* deletion removed a file at this message's path
IdleWorker ==
  [pc |-> "idle", data |-> NoData, path |-> "", launched |-> FALSE,
   rendered |-> FALSE, read |-> "pending", put |-> "pending", lost |-> FALSE]
NoWorkers == [w \in Workers |-> IdleWorker]

\* an error of the SNS client: $metadata.httpStatusCode (0 when there is no
\* $metadata), name and message
PublishError(status, name, message) ==
  [status |-> status, name |-> name, message |-> message]
\* `let lastError` before any attempt has failed
NoPublishError == PublishError(0, "", "undefined")

\* no publishEvent call in hand: where the call stands, maxAttempts, the
\* attempt counter, lastError, the outcomes of the requests sent so far,
\* and the error raised
IdlePublisher ==
  [pc |-> "idle", maxAttempts |-> 0, attempt |-> 0, lastError |-> NoPublishError,
   requests |-> <<>>, waits |-> <<>>, raised |-> NoPublishError]

InitialMsg == [MessageId |-> 0, Body |-> [json |-> "null", payload |-> NullPayload]]

Init ==
  /\ allowedDomains \in AllowLists
  /\ bucket \in {BucketName, ""}
  /\ now = Date(2026, 11, 1)
  /\ processed = 0
  /\ pc = "idle"
  /\ msg = InitialMsg
  /\ calls = <<>>
  /\ logs = <<>>
  /\ hResult = Pending
  /\ pmResult = NotRaised("pending")
  /\ pdfPath = ""
  /\ uploadResult = NoUploadResult
  /\ files = {}
  /\ s3 = {}
  /\ puts = <<>>
  /\ steps = <<>>
  /\ browserClosed = FALSE
  /\ workers = NoWorkers
  /\ publisher = IdlePublisher

(***************************************************************************)
(* processMessage(message, logger), from the receipt of a message to the   *)
(* first suspension that matters: JSON.parse, handleEvent's gates and, for *)
(* an event that passes them, the call of generatePdf.                     *)
(***************************************************************************)
\* generateAndUploadPdf reads the end date from `data.agreementEndData`
EndDateOf(data) == Prop(data, "agreementEndData")

Receive(body) ==
  /\ pc = "idle"
  /\ processed < MaxMessages
  /\ LET m == [MessageId |-> processed + 1, Body |-> body]
         parseErr == Err("SyntaxError", "Unexpected token in JSON")
         g == handleEvent(m.MessageId, body, allowedDomains)
         l1 == <<Log("info", "Processing message body:", "")>>
     IN /\ msg' = m
        /\ processed' = processed + 1
        /\ pdfPath' = ""
        /\ uploadResult' = NoUploadResult
        /\ IF body.json = "invalid"
           THEN /\ logs' = <<Log("error", "Error processing message", parseErr.message)>>
                /\ calls' = <<>>
                /\ hResult' = Pending
                /\ pmResult' = handleProcessingError(parseErr, m)
                /\ pc' = "done"
           ELSE CASE g.kind = "raise" ->
                       /\ logs' = Append(l1 \o g.logs,
                                         Log("error", "Error processing message", g.err.message))
                       /\ calls' = <<>>
                       /\ hResult' = Raised(g.err)
                       /\ pmResult' = handleProcessingError(g.err, m)
                       /\ pc' = "done"
                  [] g.kind = "return" ->
                       /\ logs' = l1 \o g.logs
                       /\ calls' = <<>>
                       /\ hResult' = Returned(g.value)
                       /\ pmResult' = NotRaised("completed")
                       /\ pc' = "done"
                  [] g.kind = "render" ->
                       /\ logs' = l1 \o g.logs
                       /\ calls' = <<GeneratePdfCall(body.payload.data,
                                                     Filename(body.payload.data))>>
                       /\ hResult' = Pending
                       /\ pmResult' = NotRaised("pending")
                       /\ pc' = "render"
  /\ UNCHANGED <<config, files, s3, puts, steps, browserClosed, workers, publisher>>

(***************************************************************************)
(* generatePdf(agreementData, filename, logger) and what generateAndUpload *)
(* Pdf does with its outcome.                                              *)
(***************************************************************************)
\* mutant: the PDF is exported before the wait for the navigation
RenderSteps_exportEarly ==
  <<"ensureSecureTmpDir", "launch", "newPage", "setViewport", "token", "goto",
    "setExtraHTTPHeaders", "evaluate", "pdf", "waitForNavigation", "access">>

\* mutant: the header is set before the first navigation
RenderSteps_headerFirst ==
  <<"ensureSecureTmpDir", "launch", "newPage", "setViewport", "token",
    "setExtraHTTPHeaders", "goto", "evaluate", "waitForNavigation", "pdf", "access">>

\* the awaited statements of generatePdf's try block, in program order
RenderSteps ==
  <<"ensureSecureTmpDir", "launch", "newPage", "setViewport", "token", "goto",
    "setExtraHTTPHeaders", "evaluate", "waitForNavigation", "pdf", "access">>

StepIndex(step) == CHOOSE i \in 1..Len(RenderSteps) : RenderSteps[i] = step

\* an operation as `steps` records it: whether it resolved, and for an
\* operation on the page whether the page carried the x-encrypted-auth
\* header when it ran
Op(op, ok) == [op |-> op, ok |-> ok, auth |-> FALSE]
PageOp(op, ok, auth) == [op |-> op, ok |-> ok, auth |-> auth]

\* the statements of generatePdf's try block that ran when the one named
\* failAt rejected ("none": all of them resolved); the header is on the
\* page once setExtraHTTPHeaders has resolved
RenderTrace(failAt) ==
  LET n == IF failAt = "none" THEN Len(RenderSteps) ELSE StepIndex(failAt)
  IN [i \in 1..n |->
        PageOp(RenderSteps[i], RenderSteps[i] # failAt,
               i > StepIndex("setExtraHTTPHeaders"))]

\* the error a failing step throws: the in-page script fails with the
\* page's own error, a navigation with puppeteer's TimeoutError
RenderError(step) ==
  CASE step = "evaluate" -> Err("SyntaxError", "Unexpected token in page script")
    [] step \in {"goto", "waitForNavigation"} ->
         Err("TimeoutError", "Navigation timeout of 30000 ms exceeded")
    [] OTHER -> Err("Error", "PDF generation failed")

RECURSIVE SplitFrom(_, _, _)
\* the segments of s.split('/') from character i on, cur being the segment
\* read so far
SplitFrom(s, i, cur) ==
  IF i > Len(s) THEN <<cur>>
  ELSE IF SubSeq(s, i, i) = "/" THEN <<cur>> \o SplitFrom(s, i + 1, "")
  ELSE SplitFrom(s, i + 1, cur \o SubSeq(s, i, i))

RECURSIVE normalizeSegments(_, _)
\* path normalisation: '' and '.' are dropped, '..' drops the segment before
\* it and is itself dropped at the root
normalizeSegments(segs, out) ==
  IF Len(segs) = 0 THEN out
  ELSE LET seg == Head(segs)
       IN IF seg = "" \/ seg = "." THEN normalizeSegments(Tail(segs), out)
          ELSE IF seg = ".."
          THEN normalizeSegments(Tail(segs),
                                 IF Len(out) = 0 THEN out ELSE SubSeq(out, 1, Len(out) - 1))
          ELSE normalizeSegments(Tail(segs), Append(out, seg))

RECURSIVE JoinSegments(_)
JoinSegments(segs) ==
  IF Len(segs) = 0 THEN "" ELSE "/" \o Head(segs) \o JoinSegments(Tail(segs))

isAbsolute(p) == Len(p) > 0 /\ SubSeq(p, 1, 1) = "/"

\* path.resolve(tmpFolder, filename) for an absolute tmpFolder: an absolute
\* filename replaces the folder, a relative one is appended to it, and the
\* result is normalised
resolve(tmpFolder, filename) ==
  LET joined == IF isAbsolute(filename) THEN filename ELSE tmpFolder \o "/" \o filename
      segs == normalizeSegments(SplitFrom(joined, 1, ""), <<>>)
  IN IF Len(segs) = 0 THEN "/" ELSE JoinSegments(segs)

\* the file names the events give rise to, and what they resolve to under
\* the configured folder, worked out once
Filenames == {Filename(a) : a \in Agreements \cup EdgeAgreements \cup ConcurrentAgreements}
ResolvedPaths == [f \in Filenames |-> resolve(TmpPdfFolder, f)]

pathResolve(tmpFolder, filename) ==
  IF tmpFolder = TmpPdfFolder /\ filename \in Filenames
  THEN ResolvedPaths[filename]
  ELSE resolve(tmpFolder, filename)

\* mutant: the unlink removes every file of the folder
removeTemporaryFile_wipe(fs, filePath, unlinkOk) ==
  IF filePath \in fs /\ unlinkOk
  THEN [files |-> {}, logs |-> <<>>]
  ELSE [files |-> fs,
        logs |-> <<Log("warn", "Failed to cleanup local PDF file ", filePath)>>]

\* mutant: a failed unlink goes unreported
removeTemporaryFile_silent(fs, filePath, unlinkOk) ==
  IF filePath \in fs /\ unlinkOk
  THEN [files |-> fs \ {filePath}, logs |-> <<>>]
  ELSE [files |-> fs, logs |-> <<>>]

\* removeTemporaryFile(filePath, logger): the files left and the lines logged
removeTemporaryFile(fs, filePath, unlinkOk) ==
  IF filePath \in fs /\ unlinkOk
  THEN [files |-> fs \ {filePath}, logs |-> <<>>]
  ELSE [files |-> fs,
        logs |-> <<Log("warn", "Failed to cleanup local PDF file ", filePath)>>]

\* mutant: the error of a failed unlink escapes removeTemporaryFile and
\* replaces the render error
generatePdfThrows_unlinkError(err, rm) ==
  IF Len(rm.logs) > 0 THEN Err("Error", "EACCES: permission denied, unlink") ELSE err

\* generatePdf's catch: what it throws once the error is logged and
\* removeTemporaryFile has settled with rm
generatePdfThrows(err, rm) == err

\* mutant: the finally lets the error of browser.close() escape
generatePdfResolves_closeThrows(ok, closeAttempt, closeOk) ==
  ok /\ ~(closeAttempt /\ ~closeOk)

\* generatePdf's finally: the close error is caught inside it, so the call
\* resolves exactly when its try block ran to the return
generatePdfResolves(ok, closeAttempt, closeOk) == ok

\* mutant: the catch rethrows the render error
OnRenderError_rethrow(err) == Raised(err)

\* generateAndUploadPdf's catch: the render error is logged and '' returned
OnRenderError(err) == Returned("")

GeneratePdf(failAt, partial, disconnected, closeOk, unlinkOk) ==
  /\ pc = "render"
  /\ failAt # "pdf" => ~partial
  /\ \E outputPath \in {pathResolve(TmpPdfFolder, calls[1].filename)} :
     LET data == msg.Body.payload.data
         filename == calls[1].filename
         ok == failAt = "none"
         err == IF ok THEN NoErr ELSE RenderError(failAt)
         launched == ok \/ StepIndex(failAt) > StepIndex("launch")
         written == ok \/ (failAt = "pdf" /\ partial)
         fs1 == IF written THEN files \cup {outputPath} ELSE files
         rm == removeTemporaryFile(fs1, outputPath, unlinkOk)
         closedFlag == browserClosed \/ (launched /\ disconnected)
         closeAttempt == launched /\ ~closedFlag
         closeLogs == IF closeAttempt /\ ~closeOk
                      THEN <<Log("error", "Error closing browser", "")>> ELSE <<>>
         endDate == EndDateOf(data)
         closeSteps ==
           (IF disconnected THEN <<Op("disconnected", TRUE)>> ELSE <<>>)
           \o (IF closeAttempt THEN <<Op("browser.close", closeOk)>> ELSE <<>>)
     IN /\ failAt = "access" => outputPath \notin files
        /\ ~launched => ~disconnected
        /\ browserClosed' = (closedFlag \/ (closeAttempt /\ closeOk))
        /\ IF generatePdfResolves(ok, closeAttempt, closeOk)
           THEN /\ files' = fs1
                /\ pdfPath' = outputPath
                /\ logs' = logs \o <<Log("info", "Generating PDF", outputPath),
                                     Log("info", "PDF generated successfully and saved to ",
                                         outputPath)>>
                                \o closeLogs
                                \o <<Log("info", "PDF generated successfully and save to ",
                                         outputPath)>>
                /\ calls' = Append(calls,
                     UploadPdfCall(outputPath, filename, data.agreementNumber,
                                   data.version, endDate))
                /\ steps' = steps \o RenderTrace(failAt) \o closeSteps
                               \o <<Op("generatePdf:return", TRUE),
                                    Op("uploadPdf:call", TRUE)>>
                /\ pc' = "upload"
                /\ UNCHANGED <<hResult, pmResult, publisher>>
           ELSE /\ files' = rm.files
                /\ pdfPath' = ""
                /\ logs' = logs \o <<Log("error", "Error generating PDF ", err.message)>>
                                \o rm.logs \o closeLogs
                                \o <<Log("error", "Failed to generate agreement PDF from URL ",
                                         generatePdfThrows(err, rm).message)>>
                /\ steps' = steps \o RenderTrace(failAt)
                               \o <<Op("generatePdf:unlink", rm.files # fs1)>>
                               \o closeSteps
                               \o <<Op("generatePdf:throw", TRUE),
                                    Op("handleEvent:return", TRUE)>>
                /\ hResult' = OnRenderError(generatePdfThrows(err, rm))
                /\ pmResult' = IF OnRenderError(generatePdfThrows(err, rm)).kind = "raised"
                               THEN handleProcessingError(generatePdfThrows(err, rm), msg)
                               ELSE NotRaised("completed")
                /\ pc' = "done"
                /\ UNCHANGED calls
  /\ UNCHANGED <<config, processed, msg, uploadResult, s3, puts, workers, publisher>>

(***************************************************************************)
(* uploadPdf(pdfPath, filename, agreementNumber, version, endDate, logger) *)
(***************************************************************************)
RECURSIVE Join(_, _)
\* Array.prototype.join(sep) on the string forms of the elements
Join(seq, sep) ==
  IF Len(seq) = 0 THEN ""
  ELSE IF Len(seq) = 1 THEN JsToString(seq[1])
  ELSE JsToString(seq[1]) \o sep \o Join(Tail(seq), sep)

\* [prefix, agreementNumber, version, filename].filter(Boolean).join('/')
S3Key(prefix, agreementNumber, version, filename) ==
  Join(SelectSeq(<<Str(prefix), agreementNumber, version, Str(filename)>>, Truthy), "/")

\* mutant: the put asks for no server-side encryption
UploadParams_unencrypted(b, key) ==
  [Bucket |-> b, Key |-> key, ContentType |-> "application/pdf",
   ServerSideEncryption |-> ""]

\* the PutObjectCommand parameters upload() builds
UploadParams(b, key) ==
  [Bucket |-> b, Key |-> key, ContentType |-> "application/pdf",
   ServerSideEncryption |-> "AES256"]

\* upload(filePath, key, logger): the error it throws, NoErr when it returns
UploadError(filePath, readOk, putOk) ==
  IF ~(filePath \in files /\ readOk)
  THEN Err("Error", "ENOENT: no such file or directory")
  ELSE IF bucket = "" THEN Err("Error", "S3 bucket name is not configured")
  ELSE IF ~putOk THEN Err("Error", "S3 upload failed")
  ELSE NoErr

\* mutant: the put is sent whatever upload() found before it
PutSent_always(e) == TRUE

\* upload() got as far as s3Client.send(new PutObjectCommand(uploadParams)):
\* it returned, or it failed with the error of the put itself
PutSent(e) == e = NoErr \/ e = Err("Error", "S3 upload failed")

Upload(readOk, putOk) ==
  /\ pc = "upload"
  /\ LET c == calls[Len(calls)]
         prefix == calculateRetentionPeriod(c.endDate, now)
         key == S3Key(prefix, c.agreementNumber, c.version, c.filename)
         e == UploadError(c.pdfPath, readOk, putOk)
         l0 == <<Log("info", "Starting PDF upload to S3. key: ", key)>>
     IN /\ puts' = IF PutSent(e) THEN Append(puts, UploadParams(bucket, key)) ELSE puts
        /\ steps' = steps \o <<Op("readFile", c.pdfPath \in files /\ readOk)>>
                         \o (IF PutSent(e) THEN <<Op("send", e = NoErr)>> ELSE <<>>)
        /\ IF e = NoErr
           THEN /\ s3' = s3 \cup {UploadParams(bucket, key)}
                /\ uploadResult' = UploadResult(bucket, key)
                /\ logs' = logs \o l0
                            \o <<Log("info", "PDF successfully uploaded to S3. key: ", key)>>
           ELSE /\ s3' = s3
                /\ uploadResult' = NoUploadResult
                /\ logs' = logs \o l0
                            \o <<Log("error", "Error uploading PDF to S3", e.message),
                                 Log("error", "Error in PDF generation and upload process",
                                     e.message)>>
  /\ pc' = "cleanup"
  /\ UNCHANGED <<config, processed, msg, calls, hResult, pmResult, pdfPath, files,
                 browserClosed, workers, publisher>>

(***************************************************************************)
(* uploadPdf's finally (removeTemporaryFile), its return to uploadPdfToS3, *)
(* and the return of generateAndUploadPdf, handleEvent and processMessage. *)
(***************************************************************************)
\* mutant: the result is read with optional chaining, `uploadResult?.success`,
\* so the success line is logged whatever uploadPdf returned
uploadPdfToS3Logs_optional(result, agreementNumber) ==
  <<Log("info", "Agreement PDF uploaded successfully to S3",
        JsToString(agreementNumber))>>

\* uploadPdfToS3: reading `.success` of an undefined result throws inside
\* the try, and the catch logs it
uploadPdfToS3Logs(result, agreementNumber) ==
  IF result.defined
  THEN <<Log("info", "Agreement PDF uploaded successfully to S3",
             JsToString(agreementNumber))>>
  ELSE <<Log("error", "Failed to upload agreement PDF to S3",
             "Cannot read properties of undefined (reading 'success')")>>

\* mutant: uploadPdfToS3 without its catch, a failed upload propagates
AfterUpload_propagate(path, result) ==
  IF result.defined THEN Returned(path)
  ELSE Raised(Err("TypeError", "Cannot read properties of undefined (reading 'success')"))

\* what generateAndUploadPdf returns once uploadPdfToS3 has settled
AfterUpload(path, result) == Returned(path)

\* mutant: uploadPdf has no finally, the file is never unlinked
CleanupSteps_none(removed, h) ==
  <<Op("uploadPdf:return", TRUE),
    Op(IF h.kind = "raised" THEN "handleEvent:throw" ELSE "handleEvent:return", TRUE)>>

\* mutant: the file is unlinked in uploadPdf's finally and again by its caller
CleanupSteps_twice(removed, h) ==
  <<Op("uploadPdf:unlink", removed),
    Op("uploadPdf:return", TRUE),
    Op("uploadPdf:unlink", FALSE),
    Op(IF h.kind = "raised" THEN "handleEvent:throw" ELSE "handleEvent:return", TRUE)>>

\* mutant: the finally does not await removeTemporaryFile, which runs once
\* the callers have returned
CleanupSteps_unawaited(removed, h) ==
  <<Op("uploadPdf:return", TRUE),
    Op(IF h.kind = "raised" THEN "handleEvent:throw" ELSE "handleEvent:return", TRUE),
    Op("uploadPdf:unlink", removed)>>

\* uploadPdf's finally awaits removeTemporaryFile, then uploadPdf returns and
\* generateAndUploadPdf, processOfferAcceptedEvent and handleEvent after it
CleanupSteps(removed, h) ==
  <<Op("uploadPdf:unlink", removed),
    Op("uploadPdf:return", TRUE),
    Op(IF h.kind = "raised" THEN "handleEvent:throw" ELSE "handleEvent:return", TRUE)>>

Cleanup(unlinkOk) ==
  /\ pc = "cleanup"
  /\ LET c == calls[Len(calls)]
         rm == removeTemporaryFile(files, c.pdfPath, unlinkOk)
         h == AfterUpload(pdfPath, uploadResult)
     IN /\ files' = rm.files
        /\ logs' = logs \o rm.logs \o uploadPdfToS3Logs(uploadResult, c.agreementNumber)
        /\ hResult' = h
        /\ pmResult' = IF h.kind = "raised" THEN handleProcessingError(h.err, msg)
                       ELSE NotRaised("completed")
        /\ steps' = steps \o CleanupSteps(rm.files # files, h)
  /\ pc' = "done"
  /\ UNCHANGED <<config, processed, msg, calls, pdfPath, uploadResult, s3, puts,
                 browserClosed, workers, publisher>>

(***************************************************************************)
(* The consumer's handleMessage callback around processMessage (sqs-       *)
(* client.js): it logs the outcome and never raises.  Once it has settled  *)
(* the consumer is done with the message and polls for the next one.       *)
(***************************************************************************)
\* mutant: the callback logs success whatever processMessage did
Settle_alwaysSuccess ==
  /\ pc = "done"
  /\ logs' = Append(logs,
       Log("info", "Successfully processed message: ", ToString(msg.MessageId)))
  /\ steps' = Append(steps, Op("handleMessage:return", TRUE))
  /\ pc' = "settled"
  /\ UNCHANGED <<config, processed, msg, calls, hResult, pmResult, pdfPath,
                 uploadResult, files, s3, puts, browserClosed, workers, publisher>>

Settle ==
  /\ pc = "done"
  /\ logs' = Append(logs,
       IF pmResult.kind = "raised"
       THEN Log("error", "Failed to process message:", pmResult.message)
       ELSE Log("info", "Successfully processed message: ", ToString(msg.MessageId)))
  /\ steps' = Append(steps, Op("handleMessage:return", TRUE))
  /\ pc' = "settled"
  /\ UNCHANGED <<config, processed, msg, calls, hResult, pmResult, pdfPath,
                 uploadResult, files, s3, puts, browserClosed, workers, publisher>>

Poll ==
  /\ pc = "settled"
  /\ pc' = "idle"
  /\ msg' = InitialMsg
  /\ calls' = <<>>
  /\ logs' = <<>>
  /\ hResult' = Pending
  /\ pmResult' = NotRaised("pending")
  /\ pdfPath' = ""
  /\ uploadResult' = NoUploadResult
  /\ puts' = <<>>
  /\ steps' = <<>>
  /\ UNCHANGED <<config, processed, files, s3, browserClosed, workers, publisher>>

(***************************************************************************)
(* Specification                                                           *)
(***************************************************************************)
Next ==
  \/ \E body \in Bodies : Receive(body)
  \/ \E failAt \in {RenderSteps[i] : i \in 1..Len(RenderSteps)} \cup {"none"},
        partial \in BOOLEAN, disconnected \in BOOLEAN,
        closeOk \in BOOLEAN, unlinkOk \in BOOLEAN :
       GeneratePdf(failAt, partial, disconnected, closeOk, unlinkOk)
  \/ \E readOk \in BOOLEAN, putOk \in BOOLEAN : Upload(readOk, putOk)
  \/ \E unlinkOk \in BOOLEAN : Cleanup(unlinkOk)
  \/ Settle
  \/ Poll

Spec == Init /\ [][Next]_vars

(***************************************************************************)
(* The uploader on its own: uploadPdf called directly, one call after the  *)
(* other, with end dates drawn from a set that straddles every tier        *)
(* boundary for both clocks.  The log lines of the calls accumulate.       *)
(***************************************************************************)
MaxUploads == 2

\* 2026-11-01 gives the start date 2026-12-01, 2026-12-15 gives 2027-01-01
Clocks == {Date(2026, 11, 1), Date(2026, 12, 15)}

EndDates ==
  { Undefined, IsoDate(2027, 13, 1), IsoDate(2025, 6, 15), IsoDate(2027, 12, 31),
    IsoDate(2030, 11, 30), IsoDate(2030, 12, 1),
    IsoDate(2035, 11, 30), IsoDate(2035, 12, 1), IsoDate(2036, 1, 1) }

TestPdfPath == "/tmp/test.pdf"
TestFilename == "agreement-123.pdf"
TestAgreementNumber == Str("AGR001")
TestVersion == Str("v1")

UploadInit ==
  /\ allowedDomains = {}
  /\ bucket = BucketName
  /\ now \in Clocks
  /\ processed = 0
  /\ pc = "idle"
  /\ msg = InitialMsg
  /\ calls = <<>>
  /\ logs = <<>>
  /\ hResult = Pending
  /\ pmResult = NotRaised("pending")
  /\ pdfPath = ""
  /\ uploadResult = NoUploadResult
  /\ files = {}
  /\ s3 = {}
  /\ puts = <<>>
  /\ steps = <<>>
  /\ browserClosed = FALSE
  /\ workers = NoWorkers
  /\ publisher = IdlePublisher

\* uploadPdf(pdfPath, filename, agreementNumber, version, endDate, logger)
\* entered, the file to upload being on disk
CallUploadPdf(endDate) ==
  /\ pc \in {"idle", "done"}
  /\ Len(calls) < MaxUploads
  /\ calls' = Append(calls, UploadPdfCall(TestPdfPath, TestFilename, TestAgreementNumber,
                                          TestVersion, endDate))
  /\ files' = files \cup {TestPdfPath}
  /\ pdfPath' = TestPdfPath
  /\ uploadResult' = NoUploadResult
  /\ pc' = "upload"
  /\ UNCHANGED <<config, processed, msg, logs, hResult, pmResult, s3, puts, steps,
                 browserClosed, workers, publisher>>

UploadNext ==
  \/ \E endDate \in EndDates : CallUploadPdf(endDate)
  \/ \E putOk \in BOOLEAN : Upload(TRUE, putOk)
  \/ \E unlinkOk \in BOOLEAN : Cleanup(unlinkOk)

UploadSpec == UploadInit /\ [][UploadNext]_vars

(***************************************************************************)
(* Messages in flight together.  sqs-consumer hands the messages of one   *)
(* receive to handleMessage without waiting for one to settle before the  *)
(* next starts, so up to batchSize calls of processMessage interleave at   *)
(* their awaits; they share the temporary folder, the bucket and the       *)
(* renderer's browserClosed.  The messages are accepted events that pass   *)
(* the gates; each action is what one call does between two awaits that    *)
(* touch the shared state.                                                 *)
(***************************************************************************)
MaxDeliveries == 2

ConcurrentInit ==
  /\ allowedDomains = {"example.com", "test.example.com"}
  /\ bucket \in {BucketName, ""}
  /\ now = Date(2026, 11, 1)
  /\ processed = 0
  /\ pc = "idle"
  /\ msg = InitialMsg
  /\ calls = <<>>
  /\ logs = <<>>
  /\ hResult = Pending
  /\ pmResult = NotRaised("pending")
  /\ pdfPath = ""
  /\ uploadResult = NoUploadResult
  /\ files = {}
  /\ s3 = {}
  /\ puts = <<>>
  /\ steps = <<>>
  /\ browserClosed = FALSE
  /\ workers = NoWorkers
  /\ publisher = IdlePublisher

\* the other slots whose message has the output path p lose the file
Unlinked(w, p, removed) ==
  [v \in Workers |->
     IF v # w /\ removed /\ workers[v].path = p
     THEN [workers[v] EXCEPT !.lost = TRUE] ELSE workers[v]]

\* processMessage up to the call of generatePdf: the gates pass, the file
\* name is built and path.resolve gives the output path
Deliver(w, a) ==
  /\ workers[w].pc \in {"idle", "done"}
  /\ processed < MaxDeliveries
  /\ LET body == [json |-> "object",
                  payload |-> Event(TypeStr(Marker), a, Str("accepted"), DefaultUrl)]
         g == handleEvent(processed + 1, body, allowedDomains)
         data == body.payload.data
     IN /\ g.kind = "render"
        /\ workers' = [workers EXCEPT ![w] =
             [IdleWorker EXCEPT !.pc = "render", !.data = data,
                                !.path = pathResolve(TmpPdfFolder, Filename(data))]]
  /\ processed' = processed + 1
  /\ UNCHANGED <<config, pc, msg, calls, logs, hResult, pmResult, pdfPath,
                 uploadResult, files, s3, puts, steps, browserClosed, publisher>>

\* generatePdf's try block up to page.pdf: the launch fails, or a later
\* step fails with nothing written, or page.pdf fails with the file partly
\* written, or page.pdf writes the file
RenderPage(w, outcome) ==
  /\ workers[w].pc = "render"
  /\ files' = IF outcome \in {"partial", "ok"}
              THEN files \cup {workers[w].path} ELSE files
  /\ workers' = [workers EXCEPT ![w].launched = outcome # "nolaunch",
                                ![w].pc = IF outcome = "ok" THEN "access" ELSE "catch"]
  /\ UNCHANGED <<config, processed, pc, msg, calls, logs, hResult, pmResult, pdfPath,
                 uploadResult, s3, puts, steps, browserClosed, publisher>>

\* await fs.access(outputPath)
AccessOutput(w) ==
  /\ workers[w].pc = "access"
  /\ workers' = [workers EXCEPT ![w].rendered = workers[w].path \in files,
                                ![w].pc = IF workers[w].path \in files
                                          THEN "finally" ELSE "catch"]
  /\ UNCHANGED <<config, processed, pc, msg, calls, logs, hResult, pmResult, pdfPath,
                 uploadResult, files, s3, puts, steps, browserClosed, publisher>>

\* generatePdf's catch: removeTemporaryFile(outputPath, logger)
CatchRender(w, unlinkOk) ==
  /\ workers[w].pc = "catch"
  /\ LET p == workers[w].path
         rm == removeTemporaryFile(files, p, unlinkOk)
     IN /\ files' = rm.files
        /\ workers' = [Unlinked(w, p, rm.files # files) EXCEPT ![w].pc = "finally"]
  /\ UNCHANGED <<config, processed, pc, msg, calls, logs, hResult, pmResult, pdfPath,
                 uploadResult, s3, puts, steps, browserClosed, publisher>>

\* generatePdf's finally, and generateAndUploadPdf going on to uploadPdf or
\* returning '' from its catch
FinallyRender(w, disconnected, closeOk) ==
  /\ workers[w].pc = "finally"
  /\ ~workers[w].launched => ~disconnected
  /\ LET closedFlag == browserClosed \/ disconnected
         closeAttempt == workers[w].launched /\ ~closedFlag
     IN /\ ~closeAttempt => closeOk
        /\ browserClosed' = (closedFlag \/ (closeAttempt /\ closeOk))
  /\ workers' = [workers EXCEPT ![w].pc = IF workers[w].rendered THEN "read" ELSE "done"]
  /\ UNCHANGED <<config, processed, pc, msg, calls, logs, hResult, pmResult, pdfPath,
                 uploadResult, files, s3, puts, steps, publisher>>

\* upload(): await fs.readFile(filePath)
ReadFile(w) ==
  /\ workers[w].pc = "read"
  /\ workers' = [workers EXCEPT
       ![w].read = IF workers[w].path \in files THEN "ok" ELSE "ENOENT",
       ![w].pc = IF workers[w].path \in files THEN "put" ELSE "unlink"]
  /\ UNCHANGED <<config, processed, pc, msg, calls, logs, hResult, pmResult, pdfPath,
                 uploadResult, files, s3, puts, steps, browserClosed, publisher>>

\* upload(): the bucket check and await s3Client.send(...)
PutObject(w, putOk) ==
  /\ workers[w].pc = "put"
  /\ LET d == workers[w].data
         key == S3Key(calculateRetentionPeriod(EndDateOf(d), now),
                      d.agreementNumber, d.version, Filename(d))
         outcome == IF bucket = "" THEN "unconfigured"
                    ELSE IF putOk THEN "ok" ELSE "failed"
     IN /\ bucket = "" => putOk
        /\ s3' = IF outcome = "ok" THEN s3 \cup {UploadParams(bucket, key)} ELSE s3
        /\ workers' = [workers EXCEPT ![w].put = outcome, ![w].pc = "unlink"]
  /\ UNCHANGED <<config, processed, pc, msg, calls, logs, hResult, pmResult, pdfPath,
                 uploadResult, files, puts, steps, browserClosed, publisher>>

\* uploadPdf's finally: removeTemporaryFile(pdfPath, logger), and the return
\* to handleMessage
UnlinkUploaded(w, unlinkOk) ==
  /\ workers[w].pc = "unlink"
  /\ LET p == workers[w].path
         rm == removeTemporaryFile(files, p, unlinkOk)
     IN /\ files' = rm.files
        /\ workers' = [Unlinked(w, p, rm.files # files) EXCEPT ![w].pc = "done"]
  /\ UNCHANGED <<config, processed, pc, msg, calls, logs, hResult, pmResult, pdfPath,
                 uploadResult, s3, puts, steps, browserClosed, publisher>>

ConcurrentNext ==
  \/ \E w \in Workers, a \in ConcurrentAgreements : Deliver(w, a)
  \/ \E w \in Workers, outcome \in {"nolaunch", "fail", "partial", "ok"} :
       RenderPage(w, outcome)
  \/ \E w \in Workers : AccessOutput(w)
  \/ \E w \in Workers, unlinkOk \in BOOLEAN : CatchRender(w, unlinkOk)
  \/ \E w \in Workers, disconnected \in BOOLEAN, closeOk \in BOOLEAN :
       FinallyRender(w, disconnected, closeOk)
  \/ \E w \in Workers : ReadFile(w)
  \/ \E w \in Workers, putOk \in BOOLEAN : PutObject(w, putOk)
  \/ \E w \in Workers, unlinkOk \in BOOLEAN : UnlinkUploaded(w, unlinkOk)

ConcurrentSpec == ConcurrentInit /\ [][ConcurrentNext]_vars

(***************************************************************************)
(* publishEvent({topicArn, type, time, data}, logger, client): the SNS     *)
(* publish with its retry loop, one call after the other.  maxAttempts is  *)
(* read from the configuration; each request either resolves or is         *)
(* rejected with one of the client's errors.                               *)
(***************************************************************************)
MaxAttempts == 3
MaxEvents == 1

\* errors of the SNS client: server errors, a client error, the status just
\* below 500, the three transient error names (throttling comes with status
\* 400), and an error with neither a status nor a transient name
PublishErrors ==
  { PublishError(500, "InternalError", "fail"),
    PublishError(503, "ServiceUnavailable", "unavailable"),
    PublishError(400, "BadRequest", "bad request"),
    PublishError(499, "ClientError", "client closed request"),
    PublishError(400, "ThrottlingException", "Rate exceeded"),
    PublishError(0, "TimeoutError", "socket timed out"),
    PublishError(0, "NetworkingError", "socket hang up"),
    PublishError(0, "Error", "boom") }

\* mutant: only the status makes an error retryable
isRetryable_statusOnly(error) == error.status >= 500

\* mutant: every error is retried
isRetryable_always(error) == TRUE

\* const isRetryable = error?.$metadata?.httpStatusCode >= 500 || ...
isRetryable(error) ==
  \/ error.status >= 500
  \/ error.name = "ThrottlingException"
  \/ error.name = "TimeoutError"
  \/ error.name = "NetworkingError"

Min(a, b) == IF a < b THEN a ELSE b
\* Math.min(1000 * 2 ** attempt, waitTime)
backoffMs(attempt) == Min(1000 * 2 ^ attempt, 5000)

PublishInit ==
  /\ allowedDomains = {}
  /\ bucket = BucketName
  /\ now = Date(2026, 11, 1)
  /\ processed = 0
  /\ pc = "idle"
  /\ msg = InitialMsg
  /\ calls = <<>>
  /\ logs = <<>>
  /\ hResult = Pending
  /\ pmResult = NotRaised("pending")
  /\ pdfPath = ""
  /\ uploadResult = NoUploadResult
  /\ files = {}
  /\ s3 = {}
  /\ puts = <<>>
  /\ steps = <<>>
  /\ browserClosed = FALSE
  /\ workers = NoWorkers
  /\ \E m \in 0..MaxAttempts : publisher = [IdlePublisher EXCEPT !.maxAttempts = m]

\* the call: the message is built, maxAttempts read, attempt = 0
CallPublishEvent ==
  /\ publisher.pc \in {"idle", "returned", "raised"}
  /\ processed < MaxEvents
  /\ publisher' = [IdlePublisher EXCEPT !.pc = "loop",
                                        !.maxAttempts = publisher.maxAttempts]
  /\ processed' = processed + 1
  /\ logs' = <<>>
  /\ UNCHANGED <<config, pc, msg, calls, hResult, pmResult, pdfPath, uploadResult,
                 files, s3, puts, steps, browserClosed, workers>>

\* mutant: a resolved request does not end the loop
PublishResolves_continues ==
  /\ publisher.pc = "loop"
  /\ publisher.attempt < publisher.maxAttempts
  /\ publisher' = [publisher EXCEPT
       !.requests = Append(@, [ok |-> TRUE, error |-> NoPublishError]),
       !.pc = IF publisher.attempt = publisher.maxAttempts - 1
              THEN "returned" ELSE "backoff"]
  /\ logs' = Append(logs, Log("info", "Published event to SNS topic: ", ""))
  /\ UNCHANGED <<config, processed, pc, msg, calls, hResult, pmResult, pdfPath,
                 uploadResult, files, s3, puts, steps, browserClosed, workers>>

\* client.send resolves: the info line is logged and publishEvent returns
PublishResolves ==
  /\ publisher.pc = "loop"
  /\ publisher.attempt < publisher.maxAttempts
  /\ publisher' = [publisher EXCEPT
       !.requests = Append(@, [ok |-> TRUE, error |-> NoPublishError]),
       !.pc = "returned"]
  /\ logs' = Append(logs, Log("info", "Published event to SNS topic: ", ""))
  /\ UNCHANGED <<config, processed, pc, msg, calls, hResult, pmResult, pdfPath,
                 uploadResult, files, s3, puts, steps, browserClosed, workers>>

\* client.send rejects: the catch records and logs the error, then breaks
\* out of the loop to `throw lastError` or goes on to the backoff
PublishRejects(error) ==
  /\ publisher.pc = "loop"
  /\ publisher.attempt < publisher.maxAttempts
  /\ LET stop == ~isRetryable(error) \/ publisher.attempt = publisher.maxAttempts - 1
     IN publisher' = [publisher EXCEPT
          !.requests = Append(@, [ok |-> FALSE, error |-> error]),
          !.lastError = error,
          !.raised = IF stop THEN error ELSE @,
          !.pc = IF stop THEN "raised" ELSE "backoff"]
  /\ logs' = Append(logs, Log("error", "Failed to publish event to SNS",
                              ToString(publisher.attempt + 1)))
  /\ UNCHANGED <<config, processed, pc, msg, calls, hResult, pmResult, pdfPath,
                 uploadResult, files, s3, puts, steps, browserClosed, workers>>

\* the backoff timer fires: attempt += 1 and the loop condition is read again
Backoff ==
  /\ publisher.pc = "backoff"
  /\ publisher' = [publisher EXCEPT
       !.waits = Append(@, backoffMs(publisher.attempt)),
       !.attempt = @ + 1,
       !.pc = "loop"]
  /\ UNCHANGED <<config, processed, pc, msg, calls, logs, hResult, pmResult, pdfPath,
                 uploadResult, files, s3, puts, steps, browserClosed, workers>>

\* the loop condition fails: `throw lastError`
LoopExit ==
  /\ publisher.pc = "loop"
  /\ ~(publisher.attempt < publisher.maxAttempts)
  /\ publisher' = [publisher EXCEPT !.raised = publisher.lastError, !.pc = "raised"]
  /\ UNCHANGED <<config, processed, pc, msg, calls, logs, hResult, pmResult, pdfPath,
                 uploadResult, files, s3, puts, steps, browserClosed, workers>>

PublishNext ==
  \/ CallPublishEvent
  \/ PublishResolves
  \/ \E error \in PublishErrors : PublishRejects(error)
  \/ Backoff
  \/ LoopExit

PublishSpec == PublishInit /\ [][PublishNext]_vars

(***************************************************************************)
(* Properties                                                              *)
(***************************************************************************)
\* the message in hand has been taken off the queue and decoded or refused
Received == pc # "idle"
\* processMessage has settled for the message in hand
Finished == pc \in {"done", "settled"}

IsObject == msg.Body.json = "object"
ThePayload == msg.Body.payload
TheData == ThePayload.data

\* the event's type is a string that contains the marker
TypeHasMarker ==
  IsObject /\ ThePayload.type.t = "string" /\ Includes(ThePayload.type.segs, Marker)
\* the event's type is a string that does not contain the marker
TypeLacksMarker ==
  IsObject /\ ThePayload.type.t = "string" /\ ~Includes(ThePayload.type.segs, Marker)

UrlPresent == IsObject /\ ThePayload.hasData /\ TheData.agreementUrl.t = "string"
StatusAccepted == IsObject /\ ThePayload.hasData /\ TheData.status = Str("accepted")
\* the URL is an absolute URL with a host
UrlHasHost ==
  UrlPresent /\ TheData.agreementUrl.scheme # "" /\ TheData.agreementUrl.host # ""
HostAllowListed == UrlHasHost /\ ToLowerCase(TheData.agreementUrl.host) \in allowedDomains

Logged(level, text, arg) ==
  \E i \in 1..Len(logs) : logs[i] = Log(level, text, arg)
LoggedText(level, text) ==
  \E i \in 1..Len(logs) : logs[i].level = level /\ logs[i].text = text

RenderFailed == LoggedText("error", "Error generating PDF ")
RenderSucceeded == LoggedText("info", "PDF generated successfully and saved to ")

\* C1: a render is attempted (generatePdf is called) for an event if and
\* only if its type contains the marker, data.agreementUrl is present,
\* data.status is 'accepted' and the URL's hostname is on the allow-list.
C1_RenderIffGatesPass ==
  Received =>
    (Called("generatePdf") <=>
       (TypeHasMarker /\ UrlPresent /\ StatusAccepted /\ HostAllowListed))

\* C1 witness: an event on a host written in upper case with a port passed
\* the gates and was rendered.
C1_Witness ==
  /\ Finished /\ Called("generatePdf")
  /\ TheData.agreementUrl.host = "EXAMPLE.com" /\ TheData.agreementUrl.port # ""

\* C2: an event whose type (a string) lacks the marker makes handleEvent
\* raise 'Unrecognized event type', and neither generatePdf nor uploadPdf is
\* called, whatever else the event carries.
C2_UnrecognizedTypeRaises ==
  (Received /\ TypeLacksMarker) =>
    /\ hResult = Raised(Err("Error", "Unrecognized event type"))
    /\ ~Called("generatePdf") /\ ~Called("uploadPdf")

\* C2 witness: an event that would pass every other gate was refused for
\* its type.
C2_Witness ==
  /\ Finished /\ TypeLacksMarker /\ StatusAccepted /\ HostAllowListed
  /\ hResult.kind = "raised"

\* C3: when generatePdf raises for an event that passed the gates,
\* handleEvent returns '' without raising, uploadPdf is never called,
\* processMessage completes and nothing is stored for the message.
C3_RenderFailureSwallowed ==
  (Finished /\ Called("generatePdf") /\ RenderFailed) =>
    /\ hResult = Returned("")
    /\ ~Called("uploadPdf")
    /\ pmResult.kind = "completed"
    /\ ~uploadResult.defined
    /\ ~LoggedText("info", "PDF successfully uploaded to S3. key: ")

\* C3 witness: a render failed after the browser had been launched.
C3_Witness ==
  /\ Finished /\ Called("generatePdf") /\ RenderFailed
  /\ Logged("error", "Error generating PDF ", "Navigation timeout of 30000 ms exceeded")

\* the upload attempted for the message in hand did not store the object
UploadFailed == Called("uploadPdf") /\ ~uploadResult.defined

\* C4: when generatePdf succeeds and the upload fails, handleEvent returns
\* exactly the path generatePdf returned and processMessage does not raise.
C4_UploadFailureKeepsPath ==
  (Finished /\ RenderSucceeded /\ UploadFailed) =>
    /\ hResult.kind = "returned"
    /\ hResult.value = pathResolve(TmpPdfFolder, calls[1].filename)
    /\ Logged("info", "PDF generated successfully and saved to ", hResult.value)
    /\ pmResult.kind = "completed"

\* C4 witness: the put itself failed, on a configured bucket and a file
\* that could be read.
C4_Witness ==
  /\ Finished /\ RenderSucceeded /\ UploadFailed
  /\ Logged("error", "Error uploading PDF to S3", "S3 upload failed")

\* C5: when the render succeeds, uploadPdf is invoked with the render path,
\* the filename '{agreementNumber}-{version}.pdf', the agreementNumber, the
\* version and the end date the event carries in data.agreementEndDate.
C5_UploadGetsEventEndDate ==
  Called("uploadPdf") =>
    calls[2] = UploadPdfCall(pathResolve(TmpPdfFolder, Filename(TheData)),
                             Filename(TheData), TheData.agreementNumber,
                             TheData.version, TheData.agreementEndDate)

\* C6: processMessage raises only for a body that fails to parse and for an
\* event whose type is not recognized; every decoded body with the marker
\* type is processed without raising.
C6_OnlyParseAndTypeRaise ==
  (Finished /\ pmResult.kind = "raised") =>
    (msg.Body.json = "invalid" \/ ~TypeHasMarker)

\* the malformed-message error
IsMalformedError ==
  /\ pmResult.kind = "raised" /\ pmResult.statusCode = 422
  /\ pmResult.message = "Invalid message format"

\* C7: processMessage raises the malformed-message error if and only if
\* the body fails JSON.parse, and then handleEvent is never invoked and
\* nothing is rendered or uploaded.
C7_MalformedIffParseFailure ==
  Finished =>
    /\ IsMalformedError <=> msg.Body.json = "invalid"
    /\ msg.Body.json = "invalid" =>
         (hResult = Pending /\ calls = <<>> /\ ~uploadResult.defined)

\* C7 witness: a body that does not parse was refused as malformed.
C7_Witness == Finished /\ msg.Body.json = "invalid" /\ IsMalformedError

\* C8: an error raised by handleEvent is re-raised by processMessage as a
\* processing error with status 500 that carries the original queue
\* message and the original error message.
C8_ProcessingErrorCarriesMessage ==
  (Finished /\ hResult.kind = "raised") =>
    /\ pmResult.kind = "raised" /\ pmResult.statusCode = 500
    /\ pmResult.message = "Error processing SQS message: " \o hResult.err.message
    /\ pmResult.data = BoomData(msg, hResult.err.message)

\* the skip of a status that is not 'accepted', as the claim describes it
StatusSkip ==
  /\ hResult = Returned("")
  /\ ~Called("generatePdf") /\ ~Called("uploadPdf")
  /\ Logged("info", "Skipping PDF generation for status: ", JsToString(TheData.status))

\* C9 as claimed: every event with the marker type whose status is not
\* 'accepted' returns '', calls nothing and logs the status at info level.
C9_Original == (Finished /\ TypeHasMarker /\ ~StatusAccepted) => StatusSkip

\* C9 as amended: that holds when data.agreementUrl is present and not
\* empty; without a URL the event is skipped before its status is looked at,
\* with '' returned, nothing called and no line naming the status.
C9_StatusSkipped ==
  (Finished /\ TypeHasMarker /\ ~StatusAccepted) =>
    IF UrlPresent /\ UrlText(TheData.agreementUrl) # ""
    THEN StatusSkip
    ELSE /\ hResult = Returned("")
         /\ ~Called("generatePdf") /\ ~Called("uploadPdf")
         /\ ~LoggedText("info", "Skipping PDF generation for status: ")

\* C9 witness: an 'offered' event with an allow-listed URL was skipped.
C9_Witness ==
  /\ Finished /\ TypeHasMarker /\ TheData.status = Str("offered")
  /\ HostAllowListed /\ StatusSkip

\* the skip of a URL off the allow-list, as the claim describes it
HostSkip ==
  /\ hResult = Returned("")
  /\ ~Called("generatePdf") /\ ~Called("uploadPdf")
  /\ Logged("warn", "Skipping PDF generation for URL: ", UrlText(TheData.agreementUrl))

\* C10 as claimed: every event with the marker type whose URL has a host
\* off the allow-list returns '', calls nothing and logs a warning naming
\* the URL.
C10_Original == (Finished /\ TypeHasMarker /\ UrlHasHost /\ ~HostAllowListed) => HostSkip

\* C10 as amended: that holds when data.status is 'accepted'; for any other
\* status the event is skipped for its status first, with '' returned,
\* nothing called and no warning.
C10_HostSkipped ==
  (Finished /\ TypeHasMarker /\ UrlHasHost /\ ~HostAllowListed) =>
    IF StatusAccepted
    THEN HostSkip
    ELSE /\ hResult = Returned("")
         /\ ~Called("generatePdf") /\ ~Called("uploadPdf")
         /\ ~LoggedText("warn", "Skipping PDF generation for URL: ")

\* C10 witness: an accepted event on bad-domain.com was skipped with the
\* warning.
C10_Witness ==
  /\ Finished /\ TypeHasMarker /\ StatusAccepted
  /\ TheData.agreementUrl.host = "bad-domain.com" /\ HostSkip


\* C11: every event with the marker type and no data.agreementUrl, an
\* event with no data at all included, makes handleEvent return '' without
\* raising, and neither generatePdf nor uploadPdf is called.
C11_NoUrlSkipped ==
  (Finished /\ TypeHasMarker /\ ~UrlPresent) =>
    /\ hResult = Returned("")
    /\ ~Called("generatePdf") /\ ~Called("uploadPdf")

\* C11 witness: an accepted event with data and no agreementUrl was
\* skipped.
C11_Witness ==
  /\ Finished /\ TypeHasMarker /\ ThePayload.hasData /\ ~UrlPresent
  /\ StatusAccepted /\ hResult = Returned("")


\* a key component the claim calls empty: the empty string or an absent value
IsEmptyComponent(v) == v = Undefined \/ v = Str("")
NotEmptyComponent(v) == ~IsEmptyComponent(v)

\* C12: the key of a stored object is [retentionPrefix, agreementNumber,
\* version, filename] joined by '/', a component being left out if and only
\* if it is the empty string or absent; so an event with an agreementNumber
\* and a version, numeric versions included, is stored under
\* '{prefix}/{agreementNumber}/{version}/{agreementNumber}-{version}.pdf'.
C12_KeyOmitsOnlyEmptyComponents ==
  (Called("uploadPdf") /\ uploadResult.defined) =>
    LET c == calls[Len(calls)]
        prefix == calculateRetentionPeriod(c.endDate, now)
    IN uploadResult.key =
         Join(SelectSeq(<<Str(prefix), c.agreementNumber, c.version, Str(c.filename)>>,
                        NotEmptyComponent), "/")


\* the uploads started so far, in call order: the i-th line is the i-th call's
StartedUploads ==
  SelectSeq(logs, LAMBDA l : l.level = "info" /\ l.text = "Starting PDF upload to S3. key: ")
\* the key the i-th call of uploadPdf computed
KeyOfUpload(i) == StartedUploads[i].arg
\* the i-th call's key is its agreement's key under the prefix p
KeyHasPrefix(i, p) ==
  KeyOfUpload(i) = S3Key(p, calls[i].agreementNumber, calls[i].version, calls[i].filename)

\* yearsSpan + retentionBaseYears for the i-th call, where the end date is a date
EndDateValid(i) == NewDate(calls[i].endDate).valid
TotalYears(i) ==
  differenceInYears(NewDate(calls[i].endDate), startOfNextMonth(now)).v + RetentionBaseYears

\* C13: the prefix is the base-term prefix exactly when totalYears <=
\* baseTermThreshold, the extended-term prefix exactly when baseTermThreshold
\* < totalYears <= extendedTermThreshold, and the maximum-term prefix
\* otherwise, with totalYears = yearsSpan + retentionBaseYears; totalYears
\* equal to a threshold selects the lower tier.
C13_TierByThresholds ==
  \A i \in 1..Len(StartedUploads) :
    /\ KeyHasPrefix(i, BaseTermPrefix) <=>
         (EndDateValid(i) /\ TotalYears(i) <= BaseTermThreshold)
    /\ KeyHasPrefix(i, ExtendedTermPrefix) <=>
         (EndDateValid(i) /\ BaseTermThreshold < TotalYears(i)
                          /\ TotalYears(i) <= ExtendedTermThreshold)
    /\ KeyHasPrefix(i, MaximumTermPrefix) <=>
         ~(EndDateValid(i) /\ TotalYears(i) <= ExtendedTermThreshold)

\* C13 witness: one upload sat exactly on the base threshold and got the
\* base prefix, another exactly on the extended threshold and got the
\* extended prefix.
C13_Witness ==
  /\ Len(StartedUploads) = 2
  /\ EndDateValid(1) /\ TotalYears(1) = BaseTermThreshold
  /\ KeyHasPrefix(1, BaseTermPrefix)
  /\ EndDateValid(2) /\ TotalYears(2) = ExtendedTermThreshold
  /\ KeyHasPrefix(2, ExtendedTermPrefix)


\* the tiers in their order: base < extended < maximum
TierRank(i) ==
  IF KeyHasPrefix(i, BaseTermPrefix) THEN 1
  ELSE IF KeyHasPrefix(i, ExtendedTermPrefix) THEN 2 ELSE 3

\* the i-th call's end date is a date no later than the j-th call's
EndDateNotAfter(i, j) ==
  /\ EndDateValid(i) /\ EndDateValid(j)
  /\ compareAsc(NewDate(calls[i].endDate), NewDate(calls[j].endDate)) <= 0

\* C14: with the clock and the configuration fixed, of two uploads the one
\* with the later end date never gets a lower tier than the other.
C14_MonotonicInEndDate ==
  \A i, j \in 1..Len(StartedUploads) :
    EndDateNotAfter(i, j) => TierRank(i) <= TierRank(j)

\* C14 witness: two uploads under one clock, the earlier end date in the
\* base tier and the later one in the maximum tier.
C14_Witness ==
  /\ Len(StartedUploads) = 2
  /\ EndDateNotAfter(2, 1) /\ calls[1].endDate # calls[2].endDate
  /\ TierRank(2) = 1 /\ TierRank(1) = 3


\* uploadPdf has been called for the message in hand and has settled
UploadSettled == Finished /\ Called("uploadPdf")
\* the put of the message in hand succeeded
PutSucceeded == LoggedText("info", "PDF successfully uploaded to S3. key: ")
\* the deletion of the local file failed and was reported as a warning
CleanupWarned ==
  Logged("warn", "Failed to cleanup local PDF file ", calls[Len(calls)].pdfPath)

\* C15: whether the put succeeded or failed, once uploadPdf has settled the
\* local file has been deleted or the failed deletion has been logged as a
\* warning; and a failed deletion leaves uploadPdf's outcome what the upload
\* made it: the result of the put if it succeeded, no result if it failed,
\* and nothing raised either way.
C15_CleanupAlwaysAttempted ==
  UploadSettled =>
    /\ calls[Len(calls)].pdfPath \notin files \/ CleanupWarned
    /\ uploadResult.defined <=> PutSucceeded
    /\ hResult.kind = "returned" /\ pmResult.kind = "completed"
    /\ ~LoggedText("error", "Failed to cleanup local PDF file ")

\* C15 witness: the put succeeded, the deletion failed with a warning, and
\* uploadPdf still returned the put's result.
C15_Witness ==
  /\ UploadSettled /\ PutSucceeded /\ CleanupWarned
  /\ calls[Len(calls)].pdfPath \in files /\ uploadResult.defined


\* C16: when the put fails, or the local file cannot be read, uploadPdf
\* logs the failure and raises the error to its caller instead of returning:
\* the error the caller catches is the one the upload failed with.
C16_UploadFailureRaised ==
  (UploadSettled /\ UploadFailed) =>
    \E i \in 1..Len(logs) :
      /\ logs[i].level = "error" /\ logs[i].text = "Error uploading PDF to S3"
      /\ Logged("error", "Failed to upload agreement PDF to S3", logs[i].arg)


\* C17: every put sent to the object store, accepted or rejected, carries
\* the content type 'application/pdf' and server-side encryption AES256,
\* under every configuration and for every event; so does every object the
\* store holds.
C17_PutsEncrypted ==
  /\ \A i \in 1..Len(puts) :
       /\ puts[i].ContentType = "application/pdf"
       /\ puts[i].ServerSideEncryption = "AES256"
  /\ \A o \in s3 :
       o.ContentType = "application/pdf" /\ o.ServerSideEncryption = "AES256"

\* C17 witness: a put was sent for an event without an agreement number
\* and was rejected by the store.
C17_Witness ==
  /\ Len(puts) = 1 /\ UploadFailed
  /\ TheData.agreementNumber = Undefined
  /\ Logged("error", "Error uploading PDF to S3", "S3 upload failed")


\* the path lies inside the configured temp directory
InTmpFolder(p) ==
  /\ Len(p) > Len(TmpPdfFolder) + 1
  /\ SubSeq(p, 1, Len(TmpPdfFolder) + 1) = TmpPdfFolder \o "/"

\* C18: whatever agreementNumber and version the event carries, the file
\* generatePdf writes is '{tmpFolder}/{agreementNumber}-{version}.pdf' and
\* lies inside the temp directory, so that every file the service leaves on
\* disk is inside it.
C18_RenderStaysInTmpFolder ==
  /\ \A f \in files : InTmpFolder(f)
  /\ (Received /\ RenderSucceeded) =>
       Logged("info", "Generating PDF", TmpPdfFolder \o "/" \o Filename(TheData))


\* the handleMessage callback has completed for the message in hand
Settled == pc = "settled"
LoggedFailure == LoggedText("error", "Failed to process message:")
LoggedSuccess ==
  Logged("info", "Successfully processed message: ", ToString(msg.MessageId))

\* C19: the handleMessage callback completes for every message, whether
\* processMessage completed or raised: when it raised, 'Failed to process
\* message' is logged and success is not; 'Successfully processed message'
\* is logged only when processMessage completed without error.
C19_HandleMessageNeverRaises ==
  /\ pc = "done" => ENABLED Settle
  /\ Settled =>
       /\ pmResult.kind \in {"raised", "completed"}
       /\ pmResult.kind = "raised" => (LoggedFailure /\ ~LoggedSuccess)
       /\ LoggedSuccess => pmResult.kind = "completed"
       /\ pmResult.kind = "completed" => (LoggedSuccess /\ ~LoggedFailure)

\* C19 witness: processMessage raised for a body that does not parse and
\* the callback completed with the failure logged.
C19_Witness ==
  /\ Settled /\ msg.Body.json = "invalid" /\ pmResult.kind = "raised"
  /\ LoggedFailure /\ ~LoggedSuccess


(***************************************************************************)
(* The order of the operations of one message, read off `steps`.          *)
(***************************************************************************)
OpIndexes(op) == {i \in 1..Len(steps) : steps[i].op = op}
Happened(op) == OpIndexes(op) # {}
Before(a, b) == \A i \in OpIndexes(a), j \in OpIndexes(b) : i < j
HandleEventLeft == Happened("handleEvent:return") \/ Happened("handleEvent:throw")

\* C21: within one message uploadPdf is invoked only after generatePdf has
\* resolved with a path, the read and the put of the upload have completed
\* (whatever their outcome) before the deletion of the local file is
\* attempted, and that deletion is attempted before handleEvent returns.
C21_StepsOrdered ==
  /\ Called("uploadPdf") =>
       /\ Happened("uploadPdf:call") /\ Happened("generatePdf:return")
       /\ Before("generatePdf:return", "uploadPdf:call")
       /\ pdfPath # "" /\ calls[Len(calls)].pdfPath = pdfPath
  /\ Happened("uploadPdf:call") => Called("uploadPdf")
  /\ Happened("uploadPdf:unlink") =>
       /\ Happened("readFile")
       /\ Len(puts) > 0 => Happened("send")
       /\ Before("uploadPdf:call", "readFile")
       /\ Before("readFile", "uploadPdf:unlink")
       /\ Before("send", "uploadPdf:unlink")
  /\ Happened("send") => Before("readFile", "send")
  /\ (HandleEventLeft /\ Called("uploadPdf")) =>
       /\ Happened("uploadPdf:unlink")
       /\ Before("uploadPdf:unlink", "handleEvent:return")
       /\ Before("uploadPdf:unlink", "handleEvent:throw")

\* a message whose put failed, with the deletion attempted and handleEvent back
C21_Witness ==
  /\ pc = "done"
  /\ \E i \in OpIndexes("send") : ~steps[i].ok
  /\ Happened("uploadPdf:unlink")
  /\ HandleEventLeft

GeneratePdfLeft == Happened("generatePdf:return") \/ Happened("generatePdf:throw")
Launched == \E i \in OpIndexes("launch") : steps[i].ok

\* C22: every generatePdf call whose browser launch succeeded attempts
\* browser.close() before it returns or raises, unless its own browser has
\* already disconnected, whatever calls the process served before it.
C22_LaunchedBrowserClosed ==
  (Launched /\ GeneratePdfLeft /\ ~Happened("disconnected")) =>
    /\ Happened("browser.close")
    /\ Before("browser.close", "generatePdf:return")
    /\ Before("browser.close", "generatePdf:throw")

\* C23: processing a message leaves no process-level state behind: once a
\* message is settled the renderer's module-level browserClosed has the
\* value it had before the message, which from the first message on is the
\* value it was initialised with.
C23_NoProcessStateLeft == pc \in {"settled", "idle"} => browserClosed = FALSE

(***************************************************************************)
(* Messages in flight together                                             *)
(***************************************************************************)
InFlight(w) == workers[w].pc \notin {"idle", "done"}
SamePair(w, v) ==
  /\ workers[w].data.agreementNumber = workers[v].data.agreementNumber
  /\ workers[w].data.version = workers[v].data.version
\* both messages are being processed, or have been and no other since
Delivered(w) == workers[w].pc # "idle"

\* C24: two messages for the same agreement number and version that are
\* processed together use the same local path, and a message whose render
\* succeeded finds its file missing at the read only when the deletion of
\* another message with that path (after its upload, or in its render's
\* catch) has removed it.
C24_SamePairSharesPath ==
  /\ \A w, v \in Workers :
       (Delivered(w) /\ Delivered(v) /\ SamePair(w, v)) =>
         workers[w].path = workers[v].path
  /\ \A w \in Workers :
       (workers[w].rendered /\ workers[w].read = "ENOENT") => workers[w].lost

\* the race: two messages for the same agreement and version, the render of
\* one succeeded, the other's deletion came first and the read failed
C24_Witness ==
  \E w, v \in Workers :
    /\ w # v /\ Delivered(w) /\ Delivered(v) /\ SamePair(w, v)
    /\ workers[w].rendered /\ workers[w].lost
    /\ workers[w].read = "ENOENT" /\ workers[w].put = "pending"
    /\ workers[w].pc = "done"

\* C25: two messages processed together whose (agreementNumber, version)
\* pairs differ use different local file paths.
C25_DistinctPairsDistinctPaths ==
  \A w, v \in Workers :
    (w # v /\ InFlight(w) /\ InFlight(v) /\ ~SamePair(w, v)) =>
      workers[w].path # workers[v].path

Times(op) == Cardinality(OpIndexes(op))
Resolved(op) == \E i \in OpIndexes(op) : steps[i].ok

\* C26: for a message whose render succeeded the Uploader reads the local
\* PDF at most once; the deletion of the file is attempted exactly once, by
\* uploadPdf and after the read and the put; generatePdf does not delete a
\* file whose path it has returned; and once the message is processed the
\* file is gone if that deletion succeeded.
C26_ReadOnceDeletedOnce ==
  Happened("generatePdf:return") =>
    /\ Times("readFile") <= 1
    /\ Times("uploadPdf:unlink") <= 1
    /\ ~Happened("generatePdf:unlink")
    /\ Happened("uploadPdf:unlink") =>
         /\ Before("readFile", "uploadPdf:unlink")
         /\ Before("send", "uploadPdf:unlink")
    /\ Finished =>
         /\ Times("readFile") = 1
         /\ Times("uploadPdf:unlink") = 1
         /\ Resolved("uploadPdf:unlink") => pdfPath \notin files

\* a rendered, uploaded message whose file has been deleted
C26_Witness ==
  /\ Finished
  /\ Happened("generatePdf:return")
  /\ Resolved("readFile") /\ Resolved("send")
  /\ Resolved("uploadPdf:unlink")
  /\ pdfPath # "" /\ pdfPath \notin files

RenderStepNames == {RenderSteps[i] : i \in 1..Len(RenderSteps)}
StepFailed(st) == \E i \in OpIndexes(st) : ~steps[i].ok

\* C27: when a step of generatePdf fails, whichever it is, generatePdf logs
\* the error, attempts to delete the output path and then raises that same
\* error to its caller, also when the deletion itself fails.
C27_RenderErrorReraised ==
  \A st \in RenderStepNames :
    StepFailed(st) =>
      /\ Logged("error", "Error generating PDF ", RenderError(st).message)
      /\ Happened("generatePdf:unlink")
      /\ Happened("generatePdf:throw") /\ ~Happened("generatePdf:return")
      /\ Before(st, "generatePdf:unlink")
      /\ Before("generatePdf:unlink", "generatePdf:throw")
      /\ Logged("error", "Failed to generate agreement PDF from URL ",
                RenderError(st).message)
      /\ ~Called("uploadPdf")

\* the export failed with the file partly written and the unlink failed too
C27_Witness ==
  /\ StepFailed("pdf")
  /\ Happened("generatePdf:unlink") /\ ~Resolved("generatePdf:unlink")
  /\ LoggedText("warn", "Failed to cleanup local PDF file ")
  /\ \E p \in files : Logged("warn", "Failed to cleanup local PDF file ", p)
  /\ Logged("error", "Failed to generate agreement PDF from URL ",
            RenderError("pdf").message)

CloseFailed == Happened("browser.close") /\ ~Resolved("browser.close")
SomeStepFailed == \E st \in RenderStepNames : StepFailed(st)

\* C28: a failure of browser.close() does not change the outcome of
\* generatePdf: when the render had succeeded the path is still returned
\* and handed to uploadPdf, when it had failed the render's own error is
\* still the one raised, and the close error is only logged.
C28_CloseFailureOnlyLogged ==
  CloseFailed =>
    /\ Logged("error", "Error closing browser", "")
    /\ ~SomeStepFailed =>
         /\ Happened("generatePdf:return") /\ ~Happened("generatePdf:throw")
         /\ Before("browser.close", "generatePdf:return")
         /\ pdfPath # "" /\ Called("uploadPdf")
         /\ calls[Len(calls)].pdfPath = pdfPath
    /\ \A st \in RenderStepNames :
         StepFailed(st) =>
           /\ Happened("generatePdf:throw") /\ ~Happened("generatePdf:return")
           /\ Before("browser.close", "generatePdf:throw")
           /\ Logged("error", "Failed to generate agreement PDF from URL ",
                     RenderError(st).message)

\* a render that succeeded and whose browser then failed to close
C28_Witness ==
  /\ CloseFailed
  /\ ~SomeStepFailed
  /\ Happened("generatePdf:return")
  /\ Finished

\* the render protocol: launch, viewport, token, navigation, auth header,
\* form submission, wait for the network to be idle, export, existence
\* check, return of the path
RenderProtocol ==
  <<"launch", "setViewport", "token", "goto", "setExtraHTTPHeaders", "evaluate",
    "waitForNavigation", "pdf", "access", "generatePdf:return">>

\* C29: in every successful render each step of the protocol happens once
\* and succeeds, in the protocol's order; in particular the PDF is exported
\* only after the wait for network-idle and the path is returned only after
\* the existence check has succeeded.
C29_ProtocolOrder ==
  Happened("generatePdf:return") =>
    /\ \A k \in 1..Len(RenderProtocol) :
         Times(RenderProtocol[k]) = 1 /\ Resolved(RenderProtocol[k])
    /\ \A k \in 1..(Len(RenderProtocol) - 1) :
         Before(RenderProtocol[k], RenderProtocol[k + 1])
    /\ ~SomeStepFailed
    /\ pdfPath # ""

\* a successful render, its path returned
C29_Witness ==
  /\ Happened("generatePdf:return")
  /\ Resolved("waitForNavigation") /\ Resolved("pdf") /\ Resolved("access")
  /\ pdfPath # ""
  /\ pc = "upload"

\* C30: in every render the x-encrypted-auth header is set on the page only
\* after the first navigation has completed and before the form is
\* submitted: the navigation's request goes out without the header, the
\* request the form submission causes carries it.
C30_HeaderAfterFirstNavigation ==
  /\ Happened("setExtraHTTPHeaders") =>
       /\ Resolved("goto")
       /\ Before("goto", "setExtraHTTPHeaders")
  /\ Happened("evaluate") =>
       /\ Resolved("setExtraHTTPHeaders")
       /\ Before("setExtraHTTPHeaders", "evaluate")
  /\ \A i \in OpIndexes("goto") : ~steps[i].auth
  /\ \A i \in OpIndexes("evaluate") \cup OpIndexes("waitForNavigation") : steps[i].auth

\* a render that got as far as submitting the form
C30_Witness ==
  /\ \E i \in OpIndexes("goto") : steps[i].ok /\ ~steps[i].auth
  /\ \E i \in OpIndexes("evaluate") : steps[i].ok /\ steps[i].auth
  /\ Resolved("setExtraHTTPHeaders")

\* C31: when processMessage raises a processing error the handling of the
\* message fails towards the queue client, the handleMessage callback does
\* not return normally, and the message is left for redelivery.
C31_FailureReachesQueueClient ==
  (Settled /\ pmResult.kind = "raised" /\ pmResult.statusCode = 500 /\ TypeLacksMarker)
    => ~Happened("handleMessage:return")

BucketUnset == bucket = ""
BucketErrorLogged ==
  Logged("error", "Error uploading PDF to S3", "S3 bucket name is not configured")

\* C32 as stated: with no bucket configured every upload attempt fails with
\* 'S3 bucket name is not configured'.
C32_Original ==
  (BucketUnset /\ Happened("readFile")) => BucketErrorLogged

\* C32: with no bucket configured no put is ever sent to the object store;
\* an upload whose read of the local file succeeded fails with 'S3 bucket
\* name is not configured', one whose read failed fails with the read's
\* error; either way the deletion of the local file is attempted afterwards
\* and, when it succeeds, the file is gone.
C32_NoPutWithoutBucket ==
  BucketUnset =>
    /\ Len(puts) = 0 /\ s3 = {} /\ ~Happened("send")
    /\ ~uploadResult.defined
    /\ Resolved("readFile") => BucketErrorLogged
    /\ (Happened("readFile") /\ ~Resolved("readFile")) =>
         /\ ~BucketErrorLogged
         /\ LoggedText("error", "Error uploading PDF to S3")
    /\ (Finished /\ Called("uploadPdf")) =>
         /\ Happened("uploadPdf:unlink")
         /\ Before("readFile", "uploadPdf:unlink")
         /\ Resolved("uploadPdf:unlink") => pdfPath \notin files

\* no bucket, the file read, the bucket error logged and the file deleted
C32_Witness ==
  /\ BucketUnset
  /\ Finished
  /\ Resolved("readFile")
  /\ BucketErrorLogged
  /\ Resolved("uploadPdf:unlink")
  /\ pdfPath # "" /\ pdfPath \notin files

UploadSuccessLogged == LoggedText("info", "Agreement PDF uploaded successfully to S3")
UploadFailureLogged == LoggedText("error", "Failed to upload agreement PDF to S3")
\* the object of the message in hand is in the bucket
ObjectStored ==
  /\ uploadResult.defined
  /\ UploadParams(uploadResult.bucket, uploadResult.key) \in s3
  /\ Resolved("send")

\* C33: the 'uploaded successfully' line is logged for an agreement only
\* when its object was stored; when the upload failed, in whichever way, it
\* is not logged and 'Failed to upload' is logged as an error instead.
C33_SuccessLogOnlyWhenStored ==
  /\ UploadSuccessLogged => ObjectStored
  /\ (Finished /\ Called("uploadPdf")) =>
       /\ ObjectStored => (UploadSuccessLogged /\ ~UploadFailureLogged)
       /\ ~ObjectStored => (UploadFailureLogged /\ ~UploadSuccessLogged)

\* an upload whose put was rejected: no success line, the failure logged
C33_Witness ==
  /\ Finished
  /\ Called("uploadPdf")
  /\ Happened("send") /\ ~Resolved("send")
  /\ UploadFailureLogged /\ ~UploadSuccessLogged

(***************************************************************************)
(* Elapsed years, stated on the calendar                                   *)
(***************************************************************************)
MaxYears == 40
DayKey(d) == d.y * 10000 + d.m * 100 + d.d
\* the date k years after a date that is the first of a month
YearsAfter(d, k) == [d EXCEPT !.y = d.y + k]
\* the greatest k with start + k years <= end
FloorYears(end, start) ==
  CHOOSE k \in -MaxYears..MaxYears :
    /\ DayKey(YearsAfter(start, k)) <= DayKey(end)
    /\ DayKey(YearsAfter(start, k + 1)) > DayKey(end)
\* the least k with start + k years >= end
CeilingYears(end, start) ==
  CHOOSE k \in -MaxYears..MaxYears :
    /\ DayKey(YearsAfter(start, k)) >= DayKey(end)
    /\ DayKey(YearsAfter(start, k - 1)) < DayKey(end)

StartDate == startOfNextMonth(now)
EndDateOfUpload(i) == NewDate(calls[i].endDate)
YearsSpan(i) == differenceInYears(EndDateOfUpload(i), StartDate)
\* the start date is the first day of the month after the clock's month
StartIsFirstOfNextMonth ==
  /\ StartDate.valid /\ StartDate.d = 1
  /\ StartDate.y * 12 + StartDate.m = now.y * 12 + now.m + 1

\* C34 as stated: yearsSpan is the floor of the elapsed years from the
\* start date to the end date for every end date, before the start date too.
C34_Original ==
  \A i \in 1..Len(StartedUploads) :
    EndDateValid(i) =>
      YearsSpan(i) = Number(FloorYears(EndDateOfUpload(i), StartDate))

\* C34: the start date is the first day of the calendar month following
\* 'now'; yearsSpan is the number of full years between the start date and
\* the end date, truncated towards zero: the floor of the elapsed years for
\* an end date on or after the start date, their ceiling for an end date
\* before it.
C34_YearsTruncated ==
  /\ StartIsFirstOfNextMonth
  /\ \A i \in 1..Len(StartedUploads) :
       EndDateValid(i) =>
         /\ DayKey(EndDateOfUpload(i)) >= DayKey(StartDate) =>
              YearsSpan(i) = Number(FloorYears(EndDateOfUpload(i), StartDate))
         /\ DayKey(EndDateOfUpload(i)) < DayKey(StartDate) =>
              YearsSpan(i) = Number(CeilingYears(EndDateOfUpload(i), StartDate))

\* an end date a year and a half before the start date and one a year and
\* a month after it
C34_Witness ==
  /\ Len(StartedUploads) = 2
  /\ calls[1].endDate = IsoDate(2025, 6, 15) /\ YearsSpan(1) = Number(-1)
  /\ FloorYears(EndDateOfUpload(1), StartDate) = -2
  /\ calls[2].endDate = IsoDate(2027, 12, 31) /\ YearsSpan(2) = Number(1)

(***************************************************************************)
(* publishEvent                                                            *)
(***************************************************************************)
Requests == publisher.requests
Sent == Len(Requests)
PublishLeft == publisher.pc \in {"returned", "raised"}
\* the errors the retry is meant for
Transient(e) ==
  e.status >= 500 \/ e.name \in {"ThrottlingException", "TimeoutError", "NetworkingError"}
AllFailedTransient ==
  \A i \in 1..Sent : ~Requests[i].ok /\ Transient(Requests[i].error)

\* C35: publishEvent sends at most maxAttempts publish requests for one
\* event; when every attempt fails with a retryable error it sends exactly
\* maxAttempts requests and then raises the last error.
C35_AtMostMaxAttempts ==
  /\ Sent <= publisher.maxAttempts
  /\ (PublishLeft /\ AllFailedTransient) =>
       /\ publisher.pc = "raised"
       /\ Sent = publisher.maxAttempts
       /\ publisher.raised = publisher.lastError
       /\ Sent > 0 => publisher.raised = Requests[Sent].error

\* three attempts, each throttled or timed out, and the last error raised
C35_Witness ==
  /\ publisher.pc = "raised"
  /\ publisher.maxAttempts = 3 /\ Sent = 3
  /\ AllFailedTransient
  /\ Requests[1].error.name = "ThrottlingException"
  /\ publisher.raised = Requests[3].error
  /\ Requests[3].error # Requests[1].error

\* C36: a publish attempt that fails with a non-retryable error is the
\* last request of the call, and that error is the one raised.
C36_NoRetryOnPermanentError ==
  \A i \in 1..Sent :
    (~Requests[i].ok /\ ~Transient(Requests[i].error)) =>
      /\ i = Sent
      /\ publisher.pc = "raised"
      /\ publisher.raised = Requests[i].error

\* a bad request after a retried server error, with attempts to spare
C36_Witness ==
  /\ publisher.pc = "raised"
  /\ publisher.maxAttempts = 3 /\ Sent = 2
  /\ Requests[1].error.status = 500
  /\ Requests[2].error.name = "BadRequest"
  /\ publisher.raised = Requests[2].error

\* C37: publishEvent returns, without raising, as soon as a request
\* succeeds, also after retryable failures, and sends nothing after the
\* successful request; it raises only when no request succeeded.
C37_ReturnsOnFirstSuccess ==
  /\ \A i \in 1..Sent :
       Requests[i].ok =>
         /\ i = Sent
         /\ publisher.pc = "returned"
         /\ publisher.raised = NoPublishError
  /\ publisher.pc = "raised" => \A i \in 1..Sent : ~Requests[i].ok
  /\ publisher.pc = "returned" => (Sent > 0 /\ Requests[Sent].ok)

\* a success on the third attempt, after two retried failures
C37_Witness ==
  /\ publisher.pc = "returned"
  /\ Sent = 3
  /\ ~Requests[1].ok /\ ~Requests[2].ok /\ Requests[3].ok
  /\ publisher.waits = <<1000, 2000>>

\* handleEvent has returned a path to processMessage
PathReturned == hResult.kind = "returned" /\ hResult.value # ""

\* C38: whenever handleEvent returns a non-empty path, uploadPdf has already
\* attempted to delete the file at that path, and if the deletion succeeded
\* no file exists at the path when the caller receives it.
C38_ReturnedPathAlreadyDeleted ==
  PathReturned =>
    /\ Called("uploadPdf")
    /\ calls[Len(calls)].pdfPath = hResult.value
    /\ Happened("uploadPdf:unlink")
    /\ Before("uploadPdf:unlink", "handleEvent:return")
    /\ Resolved("uploadPdf:unlink") => hResult.value \notin files

\* a path returned after a successful upload and a successful deletion
C38_Witness ==
  /\ PathReturned
  /\ ObjectStored
  /\ Resolved("uploadPdf:unlink")
  /\ hResult.value \notin files

\* the event has the marker type and status 'accepted', and carries a
\* non-empty agreementUrl that `new URL` cannot parse
UnparseableUrl ==
  /\ TypeHasMarker
  /\ StatusAccepted
  /\ UrlPresent
  /\ UrlTruthy(TheData.agreementUrl)
  /\ ~UrlHasHost

\* the processing error, as opposed to the malformed-message error
IsProcessingError ==
  /\ pmResult.kind = "raised" /\ pmResult.statusCode = 500
  /\ pmResult.message = "Error processing SQS message: " \o hResult.err.message

\* C39: for an event with the marker type, status 'accepted' and an
\* agreementUrl that is present but does not parse as an absolute URL,
\* handleEvent raises instead of returning '', no render and no upload is
\* attempted, and processMessage reports a processing error, not the
\* malformed-message error.
C39_UnparseableUrlRaises ==
  (Finished /\ UnparseableUrl) =>
    /\ hResult.kind = "raised"
    /\ ~Called("generatePdf")
    /\ ~Called("uploadPdf")
    /\ IsProcessingError
    /\ ~IsMalformedError

\* the message with agreementUrl 'not-a-url' has been processed and raised
C39_Witness ==
  /\ Finished
  /\ UnparseableUrl
  /\ hResult.kind = "raised"
  /\ hResult.err.name = "TypeError"
  /\ IsProcessingError

\* the i-th call of uploadPdf was given no end date, or one that is not a date
EndDateUnusable(i) ==
  calls[i].endDate.t = "undefined" \/ calls[i].endDate = IsoDate(2027, 13, 1)
\* the i-th call of uploadPdf has computed its key and called upload()
UploadReached(i) == i < Len(calls) \/ pc # "upload"

\* C40: an upload whose end date is absent or is not a valid date does not
\* fail in calculateRetentionPeriod: its key is computed under the
\* maximum-term prefix, and when the put succeeds the object is stored
\* under that key.
C40_MaximumWithoutEndDate ==
  \A i \in 1..Len(calls) :
    (EndDateUnusable(i) /\ UploadReached(i)) =>
      /\ i <= Len(StartedUploads)
      /\ KeyHasPrefix(i, MaximumTermPrefix)
      /\ (i = Len(calls) /\ uploadResult.defined) =>
           /\ uploadResult.key = KeyOfUpload(i)
           /\ UploadParams(bucket, KeyOfUpload(i)) \in s3

\* one upload without an end date and one with the thirteenth month, both
\* stored under the maximum-term prefix
C40_Witness ==
  /\ Len(calls) = 2 /\ pc = "done"
  /\ calls[1].endDate = Undefined
  /\ calls[2].endDate = IsoDate(2027, 13, 1)
  /\ KeyHasPrefix(1, MaximumTermPrefix) /\ KeyHasPrefix(2, MaximumTermPrefix)
  /\ uploadResult.defined
  /\ UploadParams(bucket, KeyOfUpload(2)) \in s3
====
